---- MODULE Spec2Model ----
(***************************************************************************)
(* Model of the OCR name-card repository.                                  *)
(*                                                                         *)
(*  Spec         : the host-integrated record model (ocr.namecard): create,*)
(*                 action_process_card and action_reprocess, stepped at    *)
(*                 each assignment of processing_status; and the           *)
(*                 command-line reader's process_name_card.                *)
(*  SpecMerge    : the Cross-Lingual Merger                                *)
(*                 (_combine_all_language_results) applied to per-language *)
(*                 span lists.                                             *)
(*  SpecAdapter  : _process_paddleocr_results on one backend response.     *)
(*  SpecExtract  : text extraction over the three language readers.        *)
(*  SpecFallback : _fallback_text_parsing on texts given by character.     *)
(*  SpecVcard    : the export controller: the JSON data and                *)
(*                 _generate_vcard.                                        *)
(*  SpecBulk     : bulk_upload_namecards of the upload controller.         *)
(*  SpecBatch    : process_folder and process_google_drive_folder of the   *)
(*                 command-line reader.                                    *)
(*  SpecPartner  : action_create_partner.                                  *)
(*  SpecReaders  : get_paddleocr_readers called from concurrent runs.      *)
(*  SpecUpdate   : _update_from_structured_data over successive runs.      *)
(***************************************************************************)
EXTENDS Integers, Sequences, FiniteSets, TLC

(* ---------------------------------------------------------------------- *)
(* Bounds                                                                 *)
(* ---------------------------------------------------------------------- *)
MaxRecords == 2

\* Spans fed to one merge, over all language hypotheses.
MaxSpans == 3

RecIds == 1..MaxRecords

(* ---------------------------------------------------------------------- *)
(* Values of the record model                                             *)
(* ---------------------------------------------------------------------- *)

\* namecard.py (the host model) and app.py (the command-line reader).
Variants == {"host", "cli"}

\* processing_status = fields.Selection([...])
Statuses == {"draft", "processing", "done", "error"}

\* The falsy value an unset Char/Text field reads as, and the value
\* action_reprocess writes into processing_error.
Falsy == <<>>

\* Exception and error texts are sequences of text pieces; a wrapped
\* message ("... %s" % str(e)) is the prefix followed by the inner pieces.
NoImageMsg == <<"No image uploaded">>

NoTextMsg == <<"No text could be extracted from the image">>

NotInitializedMsg == <<"PaddleOCR is not properly initialized. ">>

\* Exceptions that can be raised inside the try block of
\* _extract_text_from_image: the readers check, base64 decoding, the
\* temporary file.
ExtractFailures == {NotInitializedMsg}

\* raise UserError(_("Failed to extract text from image: %s") % str(e))
ExtractError(e) == <<"Failed to extract text from image: ">> \o e

\* Exceptions a field assignment of _update_from_structured_data can raise
\* (the email constraint of the model, a structured value of a wrong type).
UpdateFailures == {<<"Invalid email format: ", "invalid-email">>}

NoExc == <<>>

Contains(msg, piece) == \E i \in 1..Len(msg) : msg[i] = piece

\* What _extract_text_from_image can return: the merged list, here a list
\* of span texts (empty when no language produced a result).
ExtractResults == {<<>>, <<"John Smith">>}

\* What _process_with_ai can return: a mapping that has the key 'name' or
\* not, with an empty or a non-empty value.
StructuredResults == UNION {[D -> {"", "Jane Doe"}] : D \in SUBSET {"name"}}

NoData == [k \in {} |-> ""]

\* vals of create(): image present or not, any processing_status; the contact
\* fields are not given.
CreateVals == [image : BOOLEAN, processing_status : Statuses]

NoVals == [image |-> FALSE, processing_status |-> "draft"]

\* The content of the model's response: its text, which is JSON or not,
\* and the mapping the text decodes to.
JsonContents == {[text |-> "json", data |-> sd] : sd \in StructuredResults}

NotJsonContent == [text |-> "This is not valid JSON", data |-> NoData]

ResponseContents == JsonContents \cup {NotJsonContent}

\* No content: its text is what raw_ai_response reads as when unset.
NoContent == [text |-> "", data |-> NoData]

\* What the remote model call does: the construction of the client
\* raises, the completion request raises, or a response is received.
AiOutcomes ==
    {[kind |-> "client_raises", content |-> NoContent],
     [kind |-> "completion_raises", content |-> NoContent]}
    \cup {[kind |-> "response", content |-> c] : c \in ResponseContents}

NoOutcome == [kind |-> "none", content |-> NoContent]

VARIABLES
    exists,             \* ids of the records created so far
    image,              \* record -> the image field is set
    processing_status,  \* record -> processing_status
    processing_error,   \* record -> processing_error
    contact_name,       \* record -> contact_name
    raw_ai_response,    \* record -> raw_ai_response
    pc,                 \* position of the (single-threaded) running operation
    op,                 \* the operation last invoked from outside
    cur,                \* the record it runs on
    vals,               \* the vals of the last create()
    status0,            \* processing_status of cur when the operation was invoked
    error0,             \* processing_error of cur when the operation was invoked
    processCalls,       \* calls of action_process_card made by the operation
    extractCalls,       \* calls of _extract_text_from_image in the run
    aiCalls,            \* calls of _process_with_ai in the run
    ai_outcome,         \* what the remote model call of the run did
    extracted_data,     \* what _extract_text_from_image returned in the run
    structured_data,    \* what _process_with_ai returned in the run
    caught,             \* str(e) of the exception caught by the run's handler
    raised,             \* the exception the operation propagated to its caller
    results,            \* merger: the (lang_combo, processed_results) pairs
    building,           \* merger: the span list of the language being read
    lang,               \* merger: index of the language being read
    combined_results,   \* merger: the result of _combine_all_language_results
    merged,             \* merger: _combine_all_language_results has returned
    again,              \* merger: the merges of the merged result, once made
    variant,            \* adapter, extraction: "host" (namecard.py) or "cli" (app.py)
    shape,              \* adapter: the shape of the backend response
    raw_results,        \* adapter: the detected spans of the backend response
    adapter_return,     \* adapter: what _process_paddleocr_results returned
    adapter_pc,         \* adapter: "input", "returned" or "raised"
    readers,            \* extraction: language -> its reader was initialised
    ocr_lang,           \* extraction: index of the language tried next
    ocr_calls,          \* extraction: what happened for each language so far
    ext_results,        \* extraction: the local list results
    ext_pc,             \* extraction: position of the extraction
    ext_return,         \* extraction: the value returned
    ext_raised,         \* extraction: str(e) of the exception raised
    completions,        \* extraction: the completion requests made after it
    fb_text,            \* fallback parser: the text given to it
    fb_count,           \* fallback parser: pieces the text was put together from
    fb_result,          \* fallback parser: the mapping returned
    fb_pc,              \* fallback parser: "input" or "returned"
    cli_pc,             \* command line: position of process_name_card
    cli_extracted,      \* command line: what extract_text returned
    cli_response,       \* command line: what the completion request gave
    cli_result,         \* command line: what process_with_huggingface returned
    cli_return,         \* command line: what process_name_card returned
    cli_raised,         \* command line: the exception process_name_card raised
    vc_record,          \* vCard: the fields of the exported record
    vc_lines,           \* vCard: the lines of the generated text
    vc_pc,              \* vCard: "input", "json" or "returned"
    ex_json,            \* export: the data of the JSON document, once exported
    bu_files,           \* bulk upload: the submitted files
    bu_i,               \* bulk upload: index of the file the loop is at
    bu_results,         \* bulk upload: the local list results
    bu_created,         \* bulk upload: ids of the records created
    bu_return,          \* bulk upload: the data of the JSON document returned
    bu_pc,              \* bulk upload: "input", "loop" or "returned"
    ba_source,          \* batch: "folder" or "drive"
    ba_total,           \* batch: number of images listed
    ba_i,               \* batch: index of the image the loop is at
    ba_results,         \* batch: the local list results
    ba_temp_files,      \* batch: the local list temp_files
    ba_disk,            \* batch: the temporary files that exist
    ba_report,          \* batch: the value returned
    ba_pc,              \* batch: position of the batch run
    company_name,       \* partner: card -> company_name
    card_name,          \* partner: card -> contact_name
    partner_id,         \* partner: card -> id of the linked contact, 0 for none
    res_partner,        \* partner: the records of res.partner, by id
    pa_calls,           \* partner: calls of action_create_partner made
    pa_card,            \* partner: the card of the last call
    pa_raised,          \* partner: the exception the last call raised
    pa_return,          \* partner: res_id of the action the last call returned
    readers_cache,      \* cache: the global _readers, language -> its entry
    instances,          \* cache: language -> backend instances constructed
    th_pc,              \* cache: thread -> position of its processing run
    th_lang,            \* cache: thread -> index of the language it initialises
    th_returned,        \* cache: thread -> the cache as get_paddleocr_readers returned it
    th_status,          \* cache: thread -> processing_status of its record
    th_error,           \* cache: thread -> processing_error of its record
    up_record,          \* update: the fields of the record
    up_before,          \* update: the fields when the run's update was entered
    up_data,            \* update: the structured data of the run
    up_runs,            \* update: processing runs started on the record
    up_pc               \* update: position of the run

recVars == <<exists, image, processing_status, processing_error, contact_name,
            raw_ai_response>>

runVars == <<pc, op, cur, vals, status0, error0, processCalls, extractCalls,
             aiCalls, ai_outcome, extracted_data, structured_data, caught, raised>>

mergeVars == <<results, building, lang, combined_results, merged, again>>

adapterVars == <<variant, shape, raw_results, adapter_return, adapter_pc>>

extractVars == <<readers, ocr_lang, ocr_calls, ext_results, ext_pc, ext_return,
                 ext_raised, completions>>

\* The variables of the components that are not part of the record model
\* or of the merger.
fallbackVars == <<fb_text, fb_count, fb_result, fb_pc>>

cliVars == <<cli_pc, cli_extracted, cli_response, cli_result, cli_return,
            cli_raised>>

vcardVars == <<vc_record, vc_lines, vc_pc, ex_json>>

bulkVars == <<bu_files, bu_i, bu_results, bu_created, bu_return, bu_pc>>

batchVars == <<ba_source, ba_total, ba_i, ba_results, ba_temp_files, ba_disk,
               ba_report, ba_pc>>

partnerVars == <<company_name, card_name, partner_id, res_partner, pa_calls,
                 pa_card, pa_raised, pa_return>>

cacheVars == <<readers_cache, instances, th_pc, th_lang, th_returned,
               th_status, th_error>>

updateVars == <<up_record, up_before, up_data, up_runs, up_pc>>

\* The variables of the controllers, of the batch runs, of the cache and of
\* the field update.
moreVars == <<bulkVars, batchVars, partnerVars, cacheVars, updateVars>>

\* What the bulk upload leaves alone, and what a batch run leaves alone
\* (it runs process_name_card).
bulkFrame ==
    <<recVars, runVars, mergeVars, adapterVars, extractVars, fallbackVars,
      cliVars, vcardVars, batchVars, partnerVars, cacheVars, updateVars>>

batchFrame ==
    <<recVars, runVars, mergeVars, adapterVars, extractVars, fallbackVars,
      vcardVars, bulkVars, partnerVars, cacheVars, updateVars>>

partnerFrame ==
    <<recVars, runVars, mergeVars, adapterVars, extractVars, fallbackVars,
      cliVars, vcardVars, bulkVars, batchVars, cacheVars, updateVars>>

cacheFrame ==
    <<recVars, runVars, mergeVars, adapterVars, extractVars, fallbackVars,
      cliVars, vcardVars, bulkVars, batchVars, partnerVars, updateVars>>

updateFrame ==
    <<recVars, runVars, mergeVars, adapterVars, extractVars, fallbackVars,
      cliVars, vcardVars, bulkVars, batchVars, partnerVars, cacheVars>>

restVars == <<fallbackVars, cliVars, vcardVars, moreVars>>

extraVars == <<adapterVars, extractVars, restVars>>

vars == <<recVars, runVars, mergeVars, extraVars>>

(* ---------------------------------------------------------------------- *)
(* Regex fallback extractor: _fallback_text_parsing                       *)
(* ---------------------------------------------------------------------- *)

\* A text is the sequence of its characters.
LowerLetters == {"a", "b", "c", "d", "e", "f", "g", "h", "i", "j", "k", "l",
    "m", "n", "o", "p", "q", "r", "s", "t", "u", "v", "w", "x", "y", "z"}

UpperLetters == {"A", "B", "C", "D", "E", "F", "G", "H", "I", "J", "K", "L",
    "M", "N", "O", "P", "Q", "R", "S", "T", "U", "V", "W", "X", "Y", "Z"}

Digits == {"0", "1", "2", "3", "4", "5", "6", "7", "8", "9"}

Letters == LowerLetters \cup UpperLetters

\* [1-9]
NonZeroDigits == Digits \ {"0"}

\* \w, on which \b depends
WordChars == Letters \cup Digits \cup {"_"}

\* [A-Za-z0-9._%+-]
EmailLocalChars == Letters \cup Digits \cup {".", "_", "%", "+", "-"}

\* [A-Za-z0-9.-]
DomainChars == Letters \cup Digits \cup {".", "-"}

\* [A-Z|a-z]: the bar is a member of the class
TldChars == Letters \cup {"|"}

\* The elements of a pattern: \b, and a character class repeated greedily
\* between min and max times (without an upper limit when not bounded).
Boundary == [kind |-> "boundary", chars |-> {}, min |-> 0, bounded |-> TRUE, max |-> 0]

Repeat(S, m, M) == [kind |-> "class", chars |-> S, min |-> m, bounded |-> TRUE, max |-> M]

AtLeast(S, m) == [kind |-> "class", chars |-> S, min |-> m, bounded |-> FALSE, max |-> 0]

Lit(c) == Repeat({c}, 1, 1)

\* r'\b[A-Za-z0-9._%+-]+@[A-Za-z0-9.-]+\.[A-Z|a-z]{2,}\b'
EmailPattern ==
    <<Boundary, AtLeast(EmailLocalChars, 1), Lit("@"), AtLeast(DomainChars, 1),
      Lit("."), AtLeast(TldChars, 2), Boundary>>

\* r'[\+]?[1-9]?[0-9]{7,15}'
PhonePattern == <<Repeat({"+"}, 0, 1), Repeat(NonZeroDigits, 0, 1), Repeat(Digits, 7, 15)>>

\* r'www\.[A-Za-z0-9.-]+\.[A-Z|a-z]{2,}'
WebsitePattern ==
    <<Lit("w"), Lit("w"), Lit("w"), Lit("."), AtLeast(DomainChars, 1), Lit("."),
      AtLeast(TldChars, 2)>>

\* The number of characters of S that follow each other from pos on, at
\* most cap of them.
RECURSIVE Run(_, _, _, _)
Run(text, pos, S, cap) ==
    IF cap = 0 \/ pos > Len(text) THEN 0
    ELSE IF text[pos] \notin S THEN 0
    ELSE 1 + Run(text, pos + 1, S, cap - 1)

IsWordAt(text, p) == p \in 1..Len(text) /\ text[p] \in WordChars

\* \b holds between position pos - 1 and position pos.
AtBoundary(text, pos) == IsWordAt(text, pos - 1) # IsWordAt(text, pos)

\* The backtracking match of the elements k.. of the pattern at pos: the
\* position after the match, or 0 when there is none.  A repetition takes
\* as many characters as it can and gives them back one by one.
RECURSIVE MatchAt(_, _, _, _)
RECURSIVE TryCount(_, _, _, _, _)
MatchAt(pat, k, text, pos) ==
    IF k > Len(pat) THEN pos
    ELSE IF pat[k].kind = "boundary"
      THEN IF AtBoundary(text, pos) THEN MatchAt(pat, k + 1, text, pos) ELSE 0
    ELSE TryCount(pat, k, text, pos,
                  Run(text, pos, pat[k].chars,
                      IF pat[k].bounded THEN pat[k].max ELSE Len(text)))

TryCount(pat, k, text, pos, n) ==
    IF n < pat[k].min THEN 0
    ELSE LET r == MatchAt(pat, k + 1, text, pos + n) IN
         IF r # 0 THEN r ELSE TryCount(pat, k, text, pos, n - 1)

NoMatch == [found |-> FALSE, text |-> <<>>]

\* The leftmost match at or after pos.
Search(pat, text, pos) ==
    LET starts == {p \in pos..Len(text) : MatchAt(pat, 1, text, p) # 0} IN
      IF starts = {} THEN NoMatch
      ELSE LET first == CHOOSE p \in starts : \A q \in starts : p <= q
           IN [found |-> TRUE,
               text |-> SubSeq(text, first, MatchAt(pat, 1, text, first) - 1)]

\* re.findall(pattern, text_content): whether it is not empty, and its
\* first element.
FindFirst(pat, text) == Search(pat, text, 1)

\* _fallback_text_parsing(text_content): a key per pattern that matches,
\* and 'other' with the whole text.
FallbackTextParsing(text_content) ==
    LET emails == FindFirst(EmailPattern, text_content)
        phones == FindFirst(PhonePattern, text_content)
        websites == FindFirst(WebsitePattern, text_content)
        keys == {"other"}
                \cup (IF emails.found THEN {"email"} ELSE {})
                \cup (IF phones.found THEN {"phone"} ELSE {})
                \cup (IF websites.found THEN {"website"} ELSE {})
    IN [k \in keys |-> IF k = "email" THEN emails.text
                       ELSE IF k = "phone" THEN phones.text
                       ELSE IF k = "website" THEN websites.text
                       ELSE text_content]

(* ---------------------------------------------------------------------- *)
(* Host variant: the ocr.namecard record model                            *)
(* ---------------------------------------------------------------------- *)

\* The values the bookkeeping of an operation has while none is running.
RunReset ==
    /\ op' = "none"
    /\ cur' = 0
    /\ vals' = NoVals
    /\ status0' = "draft"
    /\ error0' = Falsy
    /\ processCalls' = 0
    /\ extractCalls' = 0
    /\ aiCalls' = 0
    /\ ai_outcome' = NoOutcome
    /\ extracted_data' = <<>>
    /\ structured_data' = NoData
    /\ caught' = NoExc
    /\ raised' = NoExc

\* An operation invoked from outside on record r: what it remembers of r.
Invoke(name, r, v, s0, e0) ==
    /\ op' = name
    /\ cur' = r
    /\ vals' = v
    /\ status0' = s0
    /\ error0' = e0
    /\ extractCalls' = 0
    /\ aiCalls' = 0
    /\ ai_outcome' = NoOutcome
    /\ extracted_data' = <<>>
    /\ structured_data' = NoData
    /\ caught' = NoExc
    /\ raised' = NoExc

\* Variant of CreateTriggersProcessing that does not look at the status.
CreateTriggersProcessing_ImageOnly(v) == v.image

\* create(): if record.image and record.processing_status == 'draft'
CreateTriggersProcessing(v) == v.image /\ v.processing_status = "draft"

\* create(vals): the record is stored with its vals, and processed at once
\* when it has an image and is a draft.
Create(v) ==
    /\ variant = "host"
    /\ pc = "idle"
    /\ Cardinality(exists) < MaxRecords
    /\ LET r == Cardinality(exists) + 1 IN
        /\ exists' = exists \cup {r}
        /\ image' = [image EXCEPT ![r] = v.image]
        /\ processing_status' = [processing_status EXCEPT ![r] = v.processing_status]
        /\ processing_error' = [processing_error EXCEPT ![r] = Falsy]
        /\ contact_name' = [contact_name EXCEPT ![r] = ""]
        /\ raw_ai_response' = [raw_ai_response EXCEPT ![r] = NoContent.text]
        /\ Invoke("create", r, v, v.processing_status, Falsy)
    /\ IF CreateTriggersProcessing(v)
          THEN processCalls' = 1 /\ pc' = "process"
          ELSE processCalls' = 0 /\ pc' = "return"
    /\ UNCHANGED <<mergeVars, extraVars>>

\* action_process_card() called from outside on record r.
ActionProcessCard(r) ==
    /\ pc = "idle"
    /\ r \in exists
    /\ Invoke("process", r, NoVals, processing_status[r], processing_error[r])
    /\ processCalls' = 1
    /\ pc' = "process"
    /\ UNCHANGED <<recVars, mergeVars, extraVars>>

\* Variant of ActionReprocess that does not clear processing_error.
ActionReprocess_KeepError(r) ==
    /\ pc = "idle"
    /\ r \in exists
    /\ Invoke("reprocess", r, NoVals, processing_status[r], processing_error[r])
    /\ processing_status' = [processing_status EXCEPT ![r] = "draft"]
    /\ processCalls' = 1
    /\ pc' = "process"
    /\ UNCHANGED <<exists, image, raw_ai_response, processing_error, contact_name, mergeVars, extraVars>>

\* action_reprocess(): reset to draft, clear the error, process.
ActionReprocess(r) ==
    /\ pc = "idle"
    /\ r \in exists
    /\ Invoke("reprocess", r, NoVals, processing_status[r], processing_error[r])
    /\ processing_status' = [processing_status EXCEPT ![r] = "draft"]
    /\ processing_error' = [processing_error EXCEPT ![r] = Falsy]
    /\ processCalls' = 1
    /\ pc' = "process"
    /\ UNCHANGED <<exists, image, raw_ai_response, contact_name, mergeVars, extraVars>>

\* Variant of ProcessCheck that writes 'processing' before the image check.
ProcessCheck_WriteFirst ==
    /\ pc = "process"
    /\ processing_status' = [processing_status EXCEPT ![cur] = "processing"]
    /\ IF ~image[cur]
          THEN raised' = NoImageMsg /\ pc' = "return"
          ELSE pc' = "extract" /\ UNCHANGED raised
    /\ UNCHANGED <<exists, image, raw_ai_response, processing_error, contact_name, op, cur, vals,
                   status0, error0, processCalls, extractCalls, aiCalls, ai_outcome,
                   extracted_data, structured_data, caught, mergeVars, extraVars>>

\* action_process_card, first lines: no image raises UserError before any
\* write; otherwise the status becomes 'processing'.
ProcessCheck ==
    /\ pc = "process"
    /\ IF ~image[cur]
          THEN /\ raised' = NoImageMsg
               /\ pc' = "return"
               /\ UNCHANGED processing_status
          ELSE /\ processing_status' = [processing_status EXCEPT ![cur] = "processing"]
               /\ pc' = "extract"
               /\ UNCHANGED raised
    /\ UNCHANGED <<exists, image, raw_ai_response, processing_error, contact_name, op, cur, vals,
                   status0, error0, processCalls, extractCalls, aiCalls, ai_outcome,
                   extracted_data, structured_data, caught, mergeVars, extraVars>>

\* except Exception as e: status 'error', processing_error = str(e).
\* Variant of HandleException that does not store str(e).
HandleException_KeepText(e) ==
    /\ processing_status' = [processing_status EXCEPT ![cur] = "error"]
    /\ UNCHANGED processing_error
    /\ UNCHANGED raised
    /\ pc' = "return"

\* The handler swallows the exception: nothing reaches the caller.
HandleException(e) ==
    /\ processing_status' = [processing_status EXCEPT ![cur] = "error"]
    /\ processing_error' = [processing_error EXCEPT ![cur] = e]
    /\ UNCHANGED raised
    /\ pc' = "return"

\* Variant of AfterExtraction without the test of an empty result.
AfterExtraction_NoEmptyCheck(d) ==
    /\ pc' = "ai"
    /\ UNCHANGED <<processing_status, processing_error>>

\* if not extracted_data: status 'error', "No text could be extracted", and
\* the loop continues with the next record (here: the run ends).
AfterExtraction(d) ==
    IF d = <<>>
      THEN /\ processing_status' = [processing_status EXCEPT ![cur] = "error"]
           /\ processing_error' = [processing_error EXCEPT ![cur] = NoTextMsg]
           /\ pc' = "return"
      ELSE /\ pc' = "ai"
           /\ UNCHANGED <<processing_status, processing_error>>

\* _extract_text_from_image() returns the merged list d.
ExtractReturns ==
    /\ pc = "extract"
    /\ \E d \in ExtractResults :
         /\ extracted_data' = d
         /\ AfterExtraction(d)
    /\ extractCalls' = extractCalls + 1
    /\ UNCHANGED <<exists, image, raw_ai_response, contact_name, op, cur, vals, status0, error0,
                   processCalls, aiCalls, ai_outcome, structured_data, caught, raised,
                   mergeVars, extraVars>>

\* _extract_text_from_image() raises: UserError wrapping the inner exception.
ExtractRaises ==
    /\ pc = "extract"
    /\ \E e \in ExtractFailures : caught' = ExtractError(e)
    /\ HandleException(caught')
    /\ extractCalls' = extractCalls + 1
    /\ UNCHANGED <<exists, image, raw_ai_response, contact_name, op, cur, vals, status0, error0,
                   processCalls, aiCalls, ai_outcome, extracted_data, structured_data,
                   mergeVars, extraVars>>

\* text_content = " ".join([item['text'] for item in extracted_text])
RECURSIVE TextContent(_)
TextContent(extracted_text) ==
    IF extracted_text = <<>> THEN <<>>
    ELSE IF Len(extracted_text) = 1 THEN <<Head(extracted_text)>>
    ELSE <<Head(extracted_text), " ">> \o TextContent(Tail(extracted_text))

\* json.loads(response_content)
JsonLoads(content) ==
    [raised |-> content.text # "json", value |-> content.data]

\* What _process_with_ai returns when the remote call does o: the decoded
\* response, or the fallback parse of the extracted text when the response
\* is not JSON or the client or the request raised.
ProcessWithAiResult(extracted_text, o) ==
    IF o.kind = "response" /\ ~JsonLoads(o.content).raised
      THEN JsonLoads(o.content).value
      ELSE FallbackTextParsing(TextContent(extracted_text))

\* Variant of ProcessWithAi in which a failure of the remote call reaches
\* the handler of action_process_card.
ProcessWithAi_Propagate(o) ==
    /\ pc = "ai"
    /\ ai_outcome' = o
    /\ aiCalls' = aiCalls + 1
    /\ raw_ai_response' = IF o.kind = "response"
                             THEN [raw_ai_response EXCEPT ![cur] = o.content.text]
                             ELSE raw_ai_response
    /\ IF o.kind = "response"
         THEN /\ structured_data' = ProcessWithAiResult(extracted_data, o)
              /\ pc' = "update"
              /\ UNCHANGED <<processing_status, processing_error, caught, raised>>
         ELSE /\ caught' = <<"AI service unavailable">>
              /\ HandleException(caught')
              /\ UNCHANGED structured_data
    /\ UNCHANGED <<exists, image, contact_name, op, cur, vals, status0, error0,
                   processCalls, extractCalls, extracted_data, mergeVars, extraVars>>

\* _process_with_ai(extracted_data): the response content, once received,
\* is stored in raw_ai_response; the call never raises.
ProcessWithAi(o) ==
    /\ pc = "ai"
    /\ ai_outcome' = o
    /\ aiCalls' = aiCalls + 1
    /\ raw_ai_response' = IF o.kind = "response"
                             THEN [raw_ai_response EXCEPT ![cur] = o.content.text]
                             ELSE raw_ai_response
    /\ structured_data' = ProcessWithAiResult(extracted_data, o)
    /\ pc' = "update"
    /\ UNCHANGED <<exists, image, processing_status, processing_error,
                   contact_name, op, cur, vals, status0, error0, processCalls,
                   extractCalls, extracted_data, caught, raised, mergeVars, extraVars>>

\* _update_from_structured_data: a field is written only when its key is
\* present with a truthy value.
UpdatedName(old, sd) ==
    IF "name" \in DOMAIN sd /\ sd["name"] # "" THEN sd["name"] ELSE old

\* The fields are written, then the status becomes 'done'.
UpdateAndDone ==
    /\ pc = "update"
    /\ contact_name' = [contact_name EXCEPT
                          ![cur] = UpdatedName(contact_name[cur], structured_data)]
    /\ processing_status' = [processing_status EXCEPT ![cur] = "done"]
    /\ pc' = "return"
    /\ UNCHANGED <<exists, image, raw_ai_response, processing_error, op, cur, vals, status0,
                   error0, processCalls, extractCalls, aiCalls, ai_outcome, extracted_data,
                   structured_data, caught, raised, mergeVars, extraVars>>

\* A field assignment raises, before or after contact_name was written.
\* Only values decoded from the model's response can be refused: the
\* fallback parser gives strings, and an email that the constraint accepts.
UpdateRaises ==
    /\ pc = "update"
    /\ ai_outcome.kind = "response"
    /\ ~JsonLoads(ai_outcome.content).raised
    /\ \E e \in UpdateFailures : caught' = e
    /\ HandleException(caught')
    /\ \E written \in BOOLEAN :
         contact_name' = [contact_name EXCEPT
                            ![cur] = IF written
                                       THEN UpdatedName(contact_name[cur], structured_data)
                                       ELSE contact_name[cur]]
    /\ UNCHANGED <<exists, image, raw_ai_response, op, cur, vals, status0, error0, processCalls,
                   extractCalls, aiCalls, ai_outcome, extracted_data, structured_data,
                   mergeVars, extraVars>>

\* The operation has returned (or raised) to its caller.
Return ==
    /\ pc = "return"
    /\ pc' = "idle"
    /\ RunReset
    /\ UNCHANGED <<recVars, mergeVars, extraVars>>

\* The record model before any record is created.
HostInit ==
    /\ exists = {}
    /\ image = [r \in RecIds |-> FALSE]
    /\ processing_status = [r \in RecIds |-> "draft"]
    /\ processing_error = [r \in RecIds |-> Falsy]
    /\ contact_name = [r \in RecIds |-> ""]
    /\ raw_ai_response = [r \in RecIds |-> NoContent.text]
    /\ pc = "idle"
    /\ op = "none"
    /\ cur = 0
    /\ vals = NoVals
    /\ status0 = "draft"
    /\ error0 = Falsy
    /\ processCalls = 0
    /\ extractCalls = 0
    /\ aiCalls = 0
    /\ ai_outcome = NoOutcome
    /\ extracted_data = <<>>
    /\ structured_data = NoData
    /\ caught = NoExc
    /\ raised = NoExc

\* No merge is under way.
MergeIdle ==
    /\ results = <<>>
    /\ building = <<>>
    /\ lang = 0
    /\ combined_results = <<>>
    /\ merged = FALSE
    /\ again = <<>>

\* _process_paddleocr_results is not being called.
AdapterIdle ==
    /\ shape = "dict"
    /\ raw_results = <<>>
    /\ adapter_return = <<>>
    /\ adapter_pc = "idle"

\* No extraction is under way.
ExtractIdle ==
    /\ readers = <<FALSE, FALSE, FALSE>>
    /\ ocr_lang = 0
    /\ ocr_calls = <<>>
    /\ ext_results = <<>>
    /\ ext_pc = "idle"
    /\ ext_return = <<>>
    /\ ext_raised = NoExc
    /\ completions = <<>>

\* The fallback parser is not being called.
FallbackIdle ==
    /\ fb_text = <<>>
    /\ fb_count = 0
    /\ fb_result = NoData
    /\ fb_pc = "idle"

\* process_name_card is not running.
CliIdle ==
    /\ cli_pc = "idle"
    /\ cli_extracted = <<>>
    /\ cli_response = NoOutcome
    /\ cli_result = NoData
    /\ cli_return = NoData
    /\ cli_raised = NoExc

\* No vCard is being generated.
VcardIdle ==
    /\ vc_record = NoData
    /\ vc_lines = <<>>
    /\ vc_pc = "idle"
    /\ ex_json = NoData

\* No bulk upload is under way.
BulkIdle ==
    /\ bu_files = <<>>
    /\ bu_i = 0
    /\ bu_results = <<>>
    /\ bu_created = <<>>
    /\ bu_return = NoData
    /\ bu_pc = "idle"

\* No folder is being processed.
BatchIdle ==
    /\ ba_source = "none"
    /\ ba_total = 0
    /\ ba_i = 0
    /\ ba_results = <<>>
    /\ ba_temp_files = <<>>
    /\ ba_disk = {}
    /\ ba_report = NoData
    /\ ba_pc = "idle"

\* No card has a contact.
PartnerIdle ==
    /\ company_name = <<>>
    /\ card_name = <<>>
    /\ partner_id = <<>>
    /\ res_partner = <<>>
    /\ pa_calls = 0
    /\ pa_card = 0
    /\ pa_raised = NoExc
    /\ pa_return = 0

\* get_paddleocr_readers has not been called.
CacheIdle ==
    /\ readers_cache = <<>>
    /\ instances = <<>>
    /\ th_pc = <<>>
    /\ th_lang = <<>>
    /\ th_returned = <<>>
    /\ th_status = <<>>
    /\ th_error = <<>>

\* No record is being updated from structured data.
UpdateIdle ==
    /\ up_record = <<>>
    /\ up_before = <<>>
    /\ up_data = <<>>
    /\ up_runs = 0
    /\ up_pc = "idle"

\* No controller and no batch run is at work.
MoreIdle ==
    BulkIdle /\ BatchIdle /\ PartnerIdle /\ CacheIdle /\ UpdateIdle

RestIdle == FallbackIdle /\ CliIdle /\ VcardIdle /\ MoreIdle

(* ---------------------------------------------------------------------- *)
(* Command-line variant: process_name_card and process_with_huggingface   *)
(* ---------------------------------------------------------------------- *)

\* What the completion request of the command-line reader does; its client
\* is built by the constructor.
CliOutcomes ==
    {[kind |-> "completion_raises", content |-> NoContent]}
    \cup {[kind |-> "response", content |-> c] : c \in ResponseContents}

\* A value by its Python type: the response object of the request, and a
\* string.
ResponseObject(content) == [type |-> "ChatCompletionOutput", content |-> content.text]

Str(text) == [type |-> "str", content |-> text]

\* return {"error": f"Failed to process with HuggingFace: {e}"}
HuggingFaceError == <<"Failed to process with HuggingFace: ", "AI service unavailable">>

\* process_with_huggingface(extracted_text) when the request does o.
ProcessWithHuggingface(extracted_text, o) ==
    IF extracted_text = <<>> THEN [error |-> <<"No text extracted from image">>]
    ELSE IF o.kind = "completion_raises" THEN [error |-> HuggingFaceError]
    ELSE IF ~JsonLoads(o.content).raised THEN JsonLoads(o.content).value
    ELSE [raw_response |-> ResponseObject(o.content)]

\* process_name_card(image_path) up to the call of the mapper: a missing
\* file and an empty extraction return an error record.
CliProcessNameCard(found, d) ==
    /\ variant = "cli"
    /\ cli_pc = "idle"
    /\ IF ~found
         THEN /\ cli_return' = [error |-> <<"Image file not found: ">>]
              /\ cli_pc' = "returned"
              /\ UNCHANGED cli_extracted
         ELSE /\ cli_extracted' = d
              /\ IF d = <<>>
                   THEN /\ cli_return' = [error |-> NoTextMsg]
                        /\ cli_pc' = "returned"
                   ELSE /\ cli_pc' = "mapper"
                        /\ UNCHANGED cli_return
    /\ UNCHANGED <<cli_response, cli_result, cli_raised, recVars, runVars,
                   mergeVars, adapterVars, extractVars, fallbackVars, vcardVars,
                   moreVars>>

\* The call of process_with_huggingface.
CliProcessWithHuggingface(o) ==
    /\ cli_pc = "mapper"
    /\ cli_response' = o
    /\ cli_result' = ProcessWithHuggingface(cli_extracted, o)
    /\ cli_pc' = "dump"
    /\ UNCHANGED <<cli_extracted, cli_return, cli_raised, recVars, runVars,
                   mergeVars, adapterVars, extractVars, fallbackVars, vcardVars,
                   moreVars>>

\* print(json.dumps(structured_data, ...)) and the return.  Whether the
\* response object can be serialized depends on the client library.
CliDump(serializable) ==
    /\ cli_pc = "dump"
    /\ IF "raw_response" \in DOMAIN cli_result /\ ~serializable
         THEN /\ cli_raised' = <<"Object of type ChatCompletionOutput is not JSON serializable">>
              /\ cli_pc' = "raised"
              /\ UNCHANGED cli_return
         ELSE /\ cli_return' = [structured_data |-> cli_result]
              /\ cli_pc' = "returned"
              /\ UNCHANGED cli_raised
    /\ UNCHANGED <<cli_extracted, cli_response, cli_result, recVars, runVars,
                   mergeVars, adapterVars, extractVars, fallbackVars, vcardVars,
                   moreVars>>

\* The program is the host module or the command-line reader.
Init ==
    /\ HostInit
    /\ MergeIdle
    /\ AdapterIdle
    /\ ExtractIdle
    /\ RestIdle
    /\ variant \in Variants

Next ==
    \/ \E v \in CreateVals : Create(v)
    \/ \E r \in RecIds : ActionProcessCard(r)
    \/ \E r \in RecIds : ActionReprocess(r)
    \/ ProcessCheck
    \/ ExtractReturns
    \/ ExtractRaises
    \/ \E o \in AiOutcomes : ProcessWithAi(o)
    \/ UpdateAndDone
    \/ UpdateRaises
    \/ Return
    \/ \E found \in BOOLEAN, d \in ExtractResults : CliProcessNameCard(found, d)
    \/ \E o \in CliOutcomes : CliProcessWithHuggingface(o)
    \/ \E serializable \in BOOLEAN : CliDump(serializable)

Spec == Init /\ [][Next]_vars

(* ---------------------------------------------------------------------- *)
(* Host variant: properties                                               *)
(* ---------------------------------------------------------------------- *)

\* The operation on cur has come back to its caller after one processing run
\* of a record that has an image.
RunFinished == pc = "return" /\ processCalls = 1 /\ image[cur]

\* The run's extraction returned an empty list (it did not raise).
ExtractionReturnedEmpty ==
    extractCalls = 1 /\ caught = NoExc /\ extracted_data = <<>>

StateMachineEdges ==
    {<<"draft", "processing">>, <<"processing", "done">>,
     <<"processing", "error">>, <<"done", "draft">>, <<"error", "draft">>}

\* C1: over any sequence of create, action_process_card and action_reprocess
\* the processing_status of a record changes only along draft->processing,
\* processing->done, processing->error, done->draft and error->draft; in
\* particular 'processing' is entered only from 'draft'.
C1_StatusFollowsStateMachine ==
    [][\A r \in exists :
          processing_status'[r] # processing_status[r]
            => <<processing_status[r], processing_status'[r]>> \in StateMachineEdges]_vars

\* C2: action_process_card on a record without an image fails with
\* 'No image uploaded' and leaves processing_status and processing_error of
\* the record as they were before the call.
C2_NoImageLeavesRecordUnchanged ==
    (pc = "return" /\ op = "process" /\ ~image[cur])
      => /\ raised = NoImageMsg
         /\ processing_status[cur] = status0
         /\ processing_error[cur] = error0

C2_Witness ==
    /\ pc = "return" /\ op = "process" /\ cur \in exists /\ ~image[cur]
    /\ raised = NoImageMsg
    /\ status0 = "draft" /\ processing_status[cur] = "draft"

\* C3: a run ends in 'done' only if its extraction returned a non-empty
\* list; when the extraction returned an empty list the record ends in
\* 'error' with "No text could be extracted" in processing_error and
\* _process_with_ai was not called in the run.
C3_DoneNeedsExtractedText ==
    RunFinished
      => /\ processing_status[cur] = "done"
              => extractCalls = 1 /\ extracted_data # <<>>
         /\ ExtractionReturnedEmpty
              => /\ processing_status[cur] = "error"
                 /\ Contains(processing_error[cur],
                             "No text could be extracted from the image")
                 /\ aiCalls = 0

C3_Witness ==
    /\ RunFinished /\ ExtractionReturnedEmpty
    /\ processing_status[cur] = "error" /\ aiCalls = 0

\* C4: for a record with an image action_process_card propagates no
\* exception of extraction, mapping or field update; it returns with the
\* status 'done' or 'error', and after an exception the status is 'error'
\* and processing_error is the text of the caught exception.
C4_ExceptionsEndInError ==
    RunFinished
      => /\ raised = NoExc
         /\ processing_status[cur] \in {"done", "error"}
         /\ caught # NoExc
              => /\ processing_status[cur] = "error"
                 /\ processing_error[cur] = caught

C4_Witness ==
    /\ RunFinished /\ op = "process" /\ aiCalls = 1
    /\ caught \in UpdateFailures
    /\ processing_status[cur] = "error" /\ processing_error[cur] = caught

\* The reset of action_reprocess has been made and the run is about to start.
ReprocessResetMade ==
    (pc = "process" /\ op = "reprocess")
      => /\ processing_status[cur] = "draft"
         /\ processing_error[cur] = Falsy
         /\ processCalls = 1

\* The record ends as the new run decides: 'done' when extraction returned
\* text and nothing raised, 'error' otherwise.
EndsByNewRun ==
    /\ processCalls = 1
    /\ extractCalls = 1
    /\ processing_status[cur] \in {"done", "error"}
    /\ processing_status[cur] = "done"
         <=> (extracted_data # <<>> /\ caught = NoExc)

\* C5 as stated: action_reprocess on a record in 'done' or 'error' resets
\* the status to 'draft' and clears processing_error, then triggers one
\* processing run, so that the record ends in 'done' or 'error' according to
\* the new run.
C5_ReprocessEndsDoneOrError ==
    /\ ReprocessResetMade
    /\ (pc = "return" /\ op = "reprocess" /\ status0 \in {"done", "error"})
         => EndsByNewRun

\* C5 amended: the same, for a record in 'done' or 'error' that has an image.
C5_ReprocessWithImageEndsDoneOrError ==
    /\ ReprocessResetMade
    /\ (pc = "return" /\ op = "reprocess" /\ status0 \in {"done", "error"}
          /\ image[cur])
         => EndsByNewRun

C5_Witness ==
    /\ pc = "return" /\ op = "reprocess" /\ cur \in exists /\ image[cur]
    /\ status0 = "error" /\ error0 # Falsy
    /\ processing_status[cur] = "done" /\ processing_error[cur] = Falsy

\* C6: create triggers one processing run when the new record has an image
\* and the status 'draft', and none when the image is absent or the record
\* is created with another status.
C6_CreateTriggersOneRun ==
    (op = "create" /\ pc = "return")
      => processCalls = (IF vals.image /\ vals.processing_status = "draft"
                           THEN 1 ELSE 0)

C6_Witness ==
    /\ op = "create" /\ pc = "return"
    /\ vals.image /\ vals.processing_status = "draft"
    /\ processCalls = 1 /\ extractCalls = 1

\* C7: right after create returns for a record created with an image and
\* the status 'draft', its processing_status is 'draft' and its contact_name
\* is empty.
C7_CreateLeavesDraft ==
    (op = "create" /\ pc = "return" /\ vals.image
       /\ vals.processing_status = "draft")
      => /\ processing_status[cur] = "draft"
         /\ contact_name[cur] = ""

\* The remote model call failed: the client or the request raised.
RemoteCallFailed(o) == o.kind \in {"client_raises", "completion_raises"}

\* The response was received and is not JSON.
NotJson(o) == o.kind = "response" /\ o.content.text # "json"

\* C17: a failure of the remote model call does not leave the mapper: the
\* host mapper returns the fallback record of the extracted text and the
\* run ends in 'done' with nothing raised; the command-line mapper returns
\* a record with an error message.
C17_RemoteFailureStaysInMapper ==
    /\ (RunFinished /\ RemoteCallFailed(ai_outcome)) =>
         /\ raised = NoExc
         /\ caught = NoExc
         /\ "other" \in DOMAIN structured_data
         /\ structured_data["other"] = TextContent(extracted_data)
         /\ processing_status[cur] = "done"
    /\ (cli_pc \in {"dump", "returned", "raised"} /\ RemoteCallFailed(cli_response)) =>
         /\ DOMAIN cli_result = {"error"}
         /\ cli_result["error"] = HuggingFaceError
         /\ cli_raised = NoExc

\* A host run whose client could not be built, on text that was extracted.
C17_Witness ==
    /\ RunFinished
    /\ ai_outcome.kind = "client_raises"
    /\ extracted_data # <<>>
    /\ processing_status[cur] = "done"

\* C18: when the response is not JSON, the host mapper has stored the
\* response text in raw_ai_response and returns the fallback record of the
\* extracted text, and the command-line mapper returns raw_response with
\* the response text.
C18_NotJsonIsDegradedResult ==
    /\ (RunFinished /\ NotJson(ai_outcome)) =>
         /\ raw_ai_response[cur] = ai_outcome.content.text
         /\ "other" \in DOMAIN structured_data
         /\ structured_data["other"] = TextContent(extracted_data)
         /\ raised = NoExc
    /\ (cli_pc \in {"dump", "returned", "raised"} /\ NotJson(cli_response)) =>
         /\ DOMAIN cli_result = {"raw_response"}
         /\ cli_result["raw_response"] = Str(cli_response.content.text)

(* ---------------------------------------------------------------------- *)
(* Cross-Lingual Merger: _combine_all_language_results                    *)
(* ---------------------------------------------------------------------- *)

\* The language hypotheses in the order _extract_text_from_image tries them.
Langs == <<"en", "japan", "vi">>

\* Texts are sequences of characters.
Texts == {<<"a">>, <<"A">>, <<" ", "A", " ">>, <<"b">>, <<"A", "B">>, <<" ">>}

\* Confidences in hundredths.
Confidences == {50, 90}

IsSpace(c) == c = " "

LowerChar(c) == IF c = "A" THEN "a" ELSE IF c = "B" THEN "b" ELSE c

\* str.lower()
Lower(s) == [i \in 1..Len(s) |-> LowerChar(s[i])]

RECURSIVE LStrip(_)
LStrip(s) ==
    IF s = <<>> THEN <<>>
    ELSE IF IsSpace(Head(s)) THEN LStrip(Tail(s)) ELSE s

RECURSIVE RStrip(_)
RStrip(s) ==
    IF s = <<>> THEN <<>>
    ELSE IF IsSpace(s[Len(s)]) THEN RStrip(SubSeq(s, 1, Len(s) - 1)) ELSE s

\* str.strip()
Strip(s) == RStrip(LStrip(s))

\* Variant of DedupKey without lower().
DedupKey_CaseSensitive(item) == Strip(item.text)

\* text = item['text'].strip().lower()
DedupKey(item) == Lower(Strip(item.text))

\* The position in seq of the item with key k, 0 when there is none.
RECURSIVE IndexOfKey(_, _, _)
IndexOfKey(seq, k, i) ==
    IF i > Len(seq) THEN 0
    ELSE IF DedupKey(seq[i]) = k THEN i ELSE IndexOfKey(seq, k, i + 1)

\* Variant of MergeItem in which a later duplicate of higher confidence
\* replaces the kept one.
MergeItem_KeepBest(st, item) ==
    LET text == DedupKey(item)
        j == IndexOfKey(st.combined, text, 1) IN
    IF text \notin st.seen /\ text # <<>>
      THEN [combined |-> Append(st.combined, item), seen |-> st.seen \cup {text}]
      ELSE IF j > 0 /\ item.confidence > st.combined[j].confidence
             THEN [st EXCEPT !.combined[j] = item]
             ELSE st

\* The body of the inner loop: an item is appended when its key is new and
\* not empty, and skipped otherwise.
MergeItem(st, item) ==
    LET text == DedupKey(item) IN
    IF text \notin st.seen /\ text # <<>>
      THEN [combined |-> Append(st.combined, item), seen |-> st.seen \cup {text}]
      ELSE st

\* for item in processed_results
RECURSIVE MergeItems(_, _)
MergeItems(st, items) ==
    IF items = <<>> THEN st
    ELSE MergeItems(MergeItem(st, Head(items)), Tail(items))

\* Variant of MergeHypotheses that stops at the first empty list.
RECURSIVE MergeHypotheses_StopAtEmpty(_, _)
MergeHypotheses_StopAtEmpty(st, res) ==
    IF res = <<>> THEN st
    ELSE LET processed_results == Head(res)[2] IN
         IF processed_results = <<>> THEN st
         ELSE MergeHypotheses_StopAtEmpty(MergeItems(st, processed_results),
                                          Tail(res))

\* for lang_combo, processed_results in results (an empty list is skipped)
RECURSIVE MergeHypotheses(_, _)
MergeHypotheses(st, res) ==
    IF res = <<>> THEN st
    ELSE LET processed_results == Head(res)[2] IN
         MergeHypotheses(IF processed_results = <<>> THEN st
                         ELSE MergeItems(st, processed_results),
                         Tail(res))

\* Inserts x behind every element whose confidence is at least x's.
RECURSIVE InsertDescending(_, _)
InsertDescending(sorted, x) ==
    IF sorted = <<>> THEN <<x>>
    ELSE IF Head(sorted).confidence >= x.confidence
           THEN <<Head(sorted)>> \o InsertDescending(Tail(sorted), x)
           ELSE <<x>> \o sorted

\* Variant of InsertDescending that puts x before the elements of equal
\* confidence (a sort that reverses ties).
RECURSIVE InsertBeforeEqual(_, _)
InsertBeforeEqual(sorted, x) ==
    IF sorted = <<>> THEN <<x>>
    ELSE IF Head(sorted).confidence > x.confidence
           THEN <<Head(sorted)>> \o InsertBeforeEqual(Tail(sorted), x)
           ELSE <<x>> \o sorted

RECURSIVE SortReversingTies(_, _)
SortReversingTies(sorted, seq) ==
    IF seq = <<>> THEN sorted
    ELSE SortReversingTies(InsertBeforeEqual(sorted, Head(seq)), Tail(seq))

RECURSIVE StableSortDescending(_, _)
StableSortDescending(sorted, seq) ==
    IF seq = <<>> THEN sorted
    ELSE StableSortDescending(InsertDescending(sorted, Head(seq)), Tail(seq))

SortByConfidence_ReversingTies(seq) == SortReversingTies(<<>>, seq)

\* combined_results.sort(key=lambda x: x['confidence'], reverse=True): the
\* sort is stable, also with reverse=True.
SortByConfidence(seq) == StableSortDescending(<<>>, seq)

\* Variant of CombineAllLanguageResults that leaves out the first pair.
CombineAllLanguageResults_SkipFirst(res) ==
    SortByConfidence(MergeHypotheses([combined |-> <<>>, seen |-> {}],
                                     IF res = <<>> THEN <<>> ELSE Tail(res)).combined)

\* _combine_all_language_results(results)
CombineAllLanguageResults(res) ==
    SortByConfidence(MergeHypotheses([combined |-> <<>>, seen |-> {}], res).combined)

\* The spans of all hypotheses in iteration order.
RECURSIVE Flatten(_)
Flatten(res) == IF res = <<>> THEN <<>> ELSE Head(res)[2] \o Flatten(Tail(res))

\* One more span of the hypothesis being read.
ReadSpan(t, c) ==
    /\ lang \in 1..Len(Langs)
    /\ Len(Flatten(results)) + Len(building) < MaxSpans
    /\ building' = Append(building,
                          [text |-> t, confidence |-> c, lang_combo |-> Langs[lang]])
    /\ UNCHANGED <<results, lang, combined_results, merged, again, recVars, runVars, extraVars>>

\* The hypothesis is complete: its pair joins the input (a hypothesis
\* without spans is passed on as an empty list, or left out).
EndHypothesis(keepEmpty) ==
    /\ lang \in 1..Len(Langs)
    /\ results' = IF building # <<>> \/ keepEmpty
                     THEN Append(results, <<Langs[lang], building>>)
                     ELSE results
    /\ building' = <<>>
    /\ lang' = lang + 1
    /\ UNCHANGED <<combined_results, merged, again, recVars, runVars, extraVars>>

\* The call of _combine_all_language_results on the input.
Combine ==
    /\ lang = Len(Langs) + 1
    /\ ~merged
    /\ combined_results' = CombineAllLanguageResults(results)
    /\ merged' = TRUE
    /\ UNCHANGED <<results, building, lang, again, recVars, runVars, extraVars>>

\* _combine_all_language_results applied to its own result: the result
\* given as two hypotheses, and as one.
MergeAgain ==
    /\ merged
    /\ again = <<>>
    /\ again' = <<CombineAllLanguageResults(<<<<"en", combined_results>>,
                                              <<"japan", combined_results>>>>),
                  CombineAllLanguageResults(<<<<"en", combined_results>>>>)>>
    /\ UNCHANGED <<results, building, lang, combined_results, merged, recVars,
                   runVars, extraVars>>

InitMerge ==
    /\ HostInit
    /\ AdapterIdle
    /\ ExtractIdle
    /\ RestIdle
    /\ variant = "host"
    /\ results = <<>>
    /\ building = <<>>
    /\ lang = 1
    /\ combined_results = <<>>
    /\ merged = FALSE
    /\ again = <<>>

NextMerge ==
    \/ \E t \in Texts, c \in Confidences : ReadSpan(t, c)
    \/ \E keepEmpty \in BOOLEAN : EndHypothesis(keepEmpty)
    \/ Combine
    \/ MergeAgain

SpecMerge == InitMerge /\ [][NextMerge]_vars

(* ---------------------------------------------------------------------- *)
(* Cross-Lingual Merger: properties                                       *)
(* ---------------------------------------------------------------------- *)

\* The trimmed, lower-cased text of a span.
NormalText(x) == Lower(Strip(x.text))

Input == Flatten(results)

\* The first position of the input whose span has the normal text k.
FirstWithText(k) ==
    CHOOSE n \in 1..Len(Input) :
      /\ NormalText(Input[n]) = k
      /\ \A m \in 1..(n - 1) : NormalText(Input[m]) # k

\* C8: the merged result holds no two elements whose trimmed, lower-cased
\* text is equal, and holds an element for every non-empty trimmed,
\* lower-cased text of the input.
C8_NoDuplicateTextAndNoneLost ==
    merged
      => /\ \A i, j \in 1..Len(combined_results) :
              i # j => NormalText(combined_results[i]) # NormalText(combined_results[j])
         /\ \A n \in 1..Len(Input) :
              NormalText(Input[n]) # <<>>
                => \E i \in 1..Len(combined_results) :
                     NormalText(combined_results[i]) = NormalText(Input[n])

C8_Witness ==
    /\ merged
    /\ \E m, n \in 1..Len(Input) :
         /\ m < n
         /\ Input[m].text # Input[n].text
         /\ NormalText(Input[m]) = NormalText(Input[n])
         /\ NormalText(Input[m]) # <<>>
    /\ \E n \in 1..Len(Input) : NormalText(Input[n]) = <<>>
    /\ Len(combined_results) = 1

\* C9: of the spans with the same lower-cased text the merge keeps the one
\* seen first in iteration order (hypotheses in their order, list order
\* within a hypothesis) and no later one, whatever their confidences.
C9_FirstSeenIsKept ==
    merged
      => \A i \in 1..Len(combined_results) :
           /\ NormalText(combined_results[i]) # <<>>
           /\ combined_results[i] = Input[FirstWithText(NormalText(combined_results[i]))]

C9_Witness ==
    /\ merged
    /\ \E m, n \in 1..Len(Input) :
         /\ m < n
         /\ NormalText(Input[m]) = NormalText(Input[n])
         /\ Input[m].lang_combo # Input[n].lang_combo
         /\ Input[n].confidence > Input[m].confidence
         /\ \E i \in 1..Len(combined_results) : combined_results[i] = Input[m]
         /\ \A i \in 1..Len(combined_results) : combined_results[i] # Input[n]

\* The first position of the input that holds the span x.
FirstPosition(x) ==
    CHOOSE n \in 1..Len(Input) :
      /\ Input[n] = x
      /\ \A m \in 1..(n - 1) : Input[m] # x

\* C10: the merged result is ordered by confidence descending, and elements
\* of equal confidence keep their first-seen relative order.
C10_DescendingAndStable ==
    merged
      => \A i \in 1..(Len(combined_results) - 1) :
           /\ combined_results[i].confidence >= combined_results[i + 1].confidence
           /\ combined_results[i].confidence = combined_results[i + 1].confidence
                => FirstPosition(combined_results[i])
                     < FirstPosition(combined_results[i + 1])

C10_Witness ==
    /\ merged
    /\ Len(combined_results) = 3
    /\ combined_results[2].confidence = combined_results[3].confidence
    /\ combined_results[1].confidence > combined_results[2].confidence
    /\ FirstPosition(combined_results[1]) > FirstPosition(combined_results[3])

\* The input without its empty hypotheses.
RECURSIVE WithoutEmpty(_)
WithoutEmpty(res) ==
    IF res = <<>> THEN <<>>
    ELSE (IF Head(res)[2] = <<>> THEN <<>> ELSE <<Head(res)>>)
           \o WithoutEmpty(Tail(res))

\* C11: the merge leaves out every hypothesis whose span list is empty (the
\* result is the merge of the other hypotheses), and the result is empty for
\* an empty input and for an input whose hypotheses are all empty.
C11_EmptyHypothesesAreSkipped ==
    merged
      => /\ combined_results = CombineAllLanguageResults(WithoutEmpty(results))
         /\ \A n \in 1..Len(Input) :
              NormalText(Input[n]) # <<>>
                => \E i \in 1..Len(combined_results) :
                     NormalText(combined_results[i]) = NormalText(Input[n])
         /\ WithoutEmpty(results) = <<>> => combined_results = <<>>

C11_Witness ==
    /\ merged
    /\ Len(results) = 3
    /\ results[1][2] = <<>>
    /\ results[2][2] # <<>>
    /\ results[3][2] = <<>>
    /\ Len(combined_results) = 2

TextSet(seq) == {seq[i].text : i \in 1..Len(seq)}

\* C12: deduplication is idempotent: merging a merged result with itself
\* (given as two hypotheses), or alone, yields the same set of texts.
C12_MergeIsIdempotent ==
    again # <<>>
      => /\ TextSet(again[1]) = TextSet(combined_results)
         /\ TextSet(again[2]) = TextSet(combined_results)

C12_Witness ==
    /\ again # <<>>
    /\ Len(Input) = 3
    /\ Len(combined_results) = 2
    /\ Len(again[1]) = 2
    /\ again[2] = combined_results

(* ---------------------------------------------------------------------- *)
(* OCR adapter: _process_paddleocr_results                                *)
(* ---------------------------------------------------------------------- *)

\* Detected spans of one backend response.
MaxRawItems == 3

\* The parallel arrays rec_texts / rec_scores / rec_boxes, and the list of
\* [bbox, (text, confidence)].
Shapes == {"dict", "list"}

\* Confidences are counted in hundredths: confidence > 0.3.
ConfidenceThreshold == 30

\* confidence = 1.0
DefaultConfidence == 100

Scores == {30, 31, 90}

RawTexts == {<<"a">>, <<" ", "A", " ">>, <<" ">>}

\* The detected spans a response of the shape can hold.  kind says what the
\* entry is: "pair", text_conf is a (text, confidence) tuple; "plain",
\* text_conf is a string, whose confidence the backend reports in rec_scores
\* (shape "dict") or not at all (shape "list"); "bad", an entry whose
\* conversion raises (float() of a non-number, a missing box); "short", a
\* list item of less than two elements.
RawItems(sh) ==
    {[kind |-> "pair", text |-> t, score |-> c, reported |-> TRUE] :
        t \in RawTexts, c \in Scores}
    \cup {[kind |-> "bad", text |-> <<"a">>, score |-> 0, reported |-> FALSE]}
    \cup (IF sh = "dict"
            THEN {[kind |-> "plain", text |-> t, score |-> c, reported |-> TRUE] :
                     t \in RawTexts, c \in Scores}
            ELSE {[kind |-> "plain", text |-> t, score |-> 0, reported |-> FALSE] :
                     t \in RawTexts}
                 \cup {[kind |-> "short", text |-> <<>>, score |-> 0,
                        reported |-> FALSE]})

\* if confidence > 0.3 and text.strip()
PassesFilter(text, confidence) ==
    confidence > ConfidenceThreshold /\ Strip(text) # <<>>

\* processed_results.append({...}) under the filter; the box of a span is
\* its position in the response.
AppendIfPasses(out, text, confidence, bbox, lang_combo) ==
    IF PassesFilter(text, confidence)
      THEN Append(out, [text |-> Strip(text), confidence |-> confidence,
                        bbox |-> bbox, lang_combo |-> lang_combo])
      ELSE out

\* Host, shape "dict": the body of the loop over rec_texts.
DictItem(out, it, i, lang_combo) ==
    IF it.kind = "bad" THEN out
    ELSE AppendIfPasses(out, it.text, it.score, i, lang_combo)

\* Host, shape "list": the body of the loop over the items.
ListItem(out, it, i, lang_combo) ==
    IF it.kind \in {"bad", "short"} THEN out
    ELSE AppendIfPasses(out, it.text,
                        IF it.kind = "pair" THEN it.score ELSE DefaultConfidence,
                        i, lang_combo)

\* Command-line variant: the body of the loop over rec_texts.
CliItem(out, it, i, lang_combo) ==
    IF it.kind = "bad" THEN out
    ELSE AppendIfPasses(out, it.text,
                        IF it.kind = "pair" THEN it.score ELSE DefaultConfidence,
                        i, lang_combo)

LoopBody(v, sh, out, it, i, lang_combo) ==
    IF v = "cli" THEN CliItem(out, it, i, lang_combo)
    ELSE IF sh = "dict" THEN DictItem(out, it, i, lang_combo)
    ELSE ListItem(out, it, i, lang_combo)

\* Variant of ProcessItems in which a failing entry ends the loop.
RECURSIVE ProcessItems_AbortAtFailure(_, _, _, _, _, _)
ProcessItems_AbortAtFailure(v, sh, raw, i, out, lang_combo) ==
    IF i > Len(raw) \/ raw[i].kind = "bad" THEN out
    ELSE ProcessItems_AbortAtFailure(v, sh, raw, i + 1,
                                     LoopBody(v, sh, out, raw[i], i, lang_combo),
                                     lang_combo)

\* The loop over the detected spans, each in its own try / except.
RECURSIVE ProcessItems(_, _, _, _, _, _)
ProcessItems(v, sh, raw, i, out, lang_combo) ==
    IF i > Len(raw) THEN out
    ELSE ProcessItems(v, sh, raw, i + 1,
                      LoopBody(v, sh, out, raw[i], i, lang_combo), lang_combo)

\* Host: both shapes are handled.
ProcessPaddleocrResults(raw, sh, lang_combo) ==
    [raised |-> FALSE, value |-> ProcessItems("host", sh, raw, 1, <<>>, lang_combo)]

\* Command-line variant: raw_results['rec_texts'] is read outside the try,
\* which raises TypeError on a list.
CliProcessPaddleocrResults(raw, sh, lang_combo) ==
    IF sh = "list" THEN [raised |-> TRUE, value |-> <<>>]
    ELSE [raised |-> FALSE,
          value |-> ProcessItems("cli", sh, raw, 1, <<>>, lang_combo)]

AdapterCall(v, raw, sh, lang_combo) ==
    IF v = "host" THEN ProcessPaddleocrResults(raw, sh, lang_combo)
    ELSE CliProcessPaddleocrResults(raw, sh, lang_combo)

\* One more detected span in the backend response.
AddRawItem(it) ==
    /\ adapter_pc = "input"
    /\ Len(raw_results) < MaxRawItems
    /\ raw_results' = Append(raw_results, it)
    /\ UNCHANGED <<variant, shape, adapter_return, adapter_pc, recVars, runVars,
                   mergeVars, extractVars, restVars>>

\* The call of _process_paddleocr_results on the response.
ProcessResults ==
    /\ adapter_pc = "input"
    /\ LET res == AdapterCall(variant, raw_results, shape, "en") IN
         /\ adapter_return' = res.value
         /\ adapter_pc' = IF res.raised THEN "raised" ELSE "returned"
    /\ UNCHANGED <<variant, shape, raw_results, recVars, runVars, mergeVars,
                   extractVars, restVars>>

InitAdapter ==
    /\ HostInit
    /\ MergeIdle
    /\ ExtractIdle
    /\ RestIdle
    /\ variant \in Variants
    /\ shape \in Shapes
    /\ raw_results = <<>>
    /\ adapter_return = <<>>
    /\ adapter_pc = "input"

NextAdapter ==
    \/ \E it \in RawItems(shape) : AddRawItem(it)
    \/ ProcessResults

SpecAdapter == InitAdapter /\ [][NextAdapter]_vars

(* ---------------------------------------------------------------------- *)
(* OCR adapter: properties                                                *)
(* ---------------------------------------------------------------------- *)

\* The detected span an output span was made from.
Origin(x) == raw_results[x.bbox]

\* C13: no span whose reported confidence is at most 0.3, and no span whose
\* trimmed text is empty, appears in the output of
\* _process_paddleocr_results, in either variant and for either shape.
C13_LowConfidenceAndEmptyTextFilteredOut ==
    adapter_pc = "returned" =>
      \A k \in 1..Len(adapter_return) :
        /\ Strip(Origin(adapter_return[k]).text) # <<>>
        /\ Origin(adapter_return[k]).reported =>
             Origin(adapter_return[k]).score > ConfidenceThreshold

InitializeError == <<"Failed to initialize PaddleOCR: ">>

PlainItem(t, c) == [kind |-> "plain", text |-> t, score |-> c, reported |-> TRUE]

PairItem(t, c) == [kind |-> "pair", text |-> t, score |-> c, reported |-> TRUE]

\* What reader.ocr(path) gives for one language: it raises, it gives
\* nothing (None, or a first page that is empty), or it gives a response.
OcrOutcomes ==
    {[kind |-> "raises", shape |-> "dict", items |-> <<>>],
     [kind |-> "nothing", shape |-> "dict", items |-> <<>>],
     [kind |-> "response", shape |-> "dict", items |-> <<PlainItem(<<"a">>, 90)>>],
     [kind |-> "response", shape |-> "dict",
      items |-> <<PairItem(<<"b">>, 31), PlainItem(<<" ", "A", " ">>, 90)>>],
     [kind |-> "response", shape |-> "dict", items |-> <<PlainItem(<<" ">>, 90)>>],
     [kind |-> "response", shape |-> "list", items |-> <<PairItem(<<"a">>, 90)>>]}

NoCall == [kind |-> "skipped", shape |-> "dict", items |-> <<>>,
           failed |-> FALSE, processed |-> <<>>]

\* The body of one language's try block: the OCR call, the adapter, the
\* append to results; `failed` says that the except clause was entered.
TryLanguage(v, o, lang_combo) ==
    IF o.kind = "raises"
      THEN [kind |-> o.kind, shape |-> o.shape, items |-> o.items,
            failed |-> TRUE, processed |-> <<>>]
    ELSE IF o.kind = "nothing"
      THEN [kind |-> o.kind, shape |-> o.shape, items |-> o.items,
            failed |-> FALSE, processed |-> <<>>]
    ELSE LET res == AdapterCall(v, o.items, o.shape, lang_combo) IN
         [kind |-> o.kind, shape |-> o.shape, items |-> o.items,
          failed |-> res.raised, processed |-> res.value]

\* Command line: the constructor builds the three readers in one try and
\* raises when one of them fails; extract_text is then never reached.
CliInit ==
    /\ variant = "cli"
    /\ ext_pc = "start"
    /\ IF \A l \in 1..Len(Langs) : readers[l]
         THEN ext_pc' = "ocr" /\ ocr_lang' = 1 /\ UNCHANGED ext_raised
         ELSE ext_pc' = "raised" /\ ext_raised' = InitializeError
              /\ UNCHANGED ocr_lang
    /\ UNCHANGED <<completions, readers, ocr_calls, ext_results, ext_return, adapterVars,
                   recVars, runVars, mergeVars, restVars>>

\* Variant of CheckReaders in which no reader means no text.
CheckReaders_ReturnEmpty ==
    /\ variant = "host"
    /\ ext_pc = "start"
    /\ IF \E l \in 1..Len(Langs) : readers[l]
         THEN ext_pc' = "ocr" /\ ocr_lang' = 1
         ELSE ext_pc' = "returned" /\ UNCHANGED ocr_lang
    /\ UNCHANGED <<completions, readers, ocr_calls, ext_results, ext_return, ext_raised,
                   adapterVars, recVars, runVars, mergeVars, restVars>>

\* Host: if not any(readers.values()): raise UserError(...), which the
\* outer except wraps.
CheckReaders ==
    /\ variant = "host"
    /\ ext_pc = "start"
    /\ IF \E l \in 1..Len(Langs) : readers[l]
         THEN ext_pc' = "ocr" /\ ocr_lang' = 1 /\ UNCHANGED ext_raised
         ELSE ext_pc' = "raised" /\ ext_raised' = ExtractError(NotInitializedMsg)
              /\ UNCHANGED ocr_lang
    /\ UNCHANGED <<completions, readers, ocr_calls, ext_results, ext_return, adapterVars,
                   recVars, runVars, mergeVars, restVars>>

\* Host: if readers.get(lang) is false, the language is not tried.
SkipLanguage ==
    /\ ext_pc = "ocr"
    /\ ocr_lang \in 1..Len(Langs)
    /\ ~readers[ocr_lang]
    /\ ocr_calls' = Append(ocr_calls, NoCall)
    /\ ocr_lang' = ocr_lang + 1
    /\ UNCHANGED <<completions, readers, ext_results, ext_pc, ext_return, ext_raised,
                   adapterVars, recVars, runVars, mergeVars, restVars>>

\* Variant of TryOcr in which a failure of the language ends the extraction.
TryOcr_AbortOnFailure(o) ==
    /\ ext_pc = "ocr"
    /\ ocr_lang \in 1..Len(Langs)
    /\ readers[ocr_lang]
    /\ LET call == TryLanguage(variant, o, Langs[ocr_lang]) IN
         /\ ocr_calls' = Append(ocr_calls, call)
         /\ ext_results' = IF call.processed # <<>>
                              THEN Append(ext_results, <<Langs[ocr_lang], call.processed>>)
                              ELSE ext_results
         /\ IF call.failed \/ call.kind = "nothing"
              THEN ext_pc' = "returned" /\ UNCHANGED ocr_lang
              ELSE ocr_lang' = ocr_lang + 1 /\ UNCHANGED ext_pc
    /\ UNCHANGED <<completions, readers, ext_return, ext_raised, adapterVars, recVars,
                   runVars, mergeVars, restVars>>

\* One language's try / except block.
TryOcr(o) ==
    /\ ext_pc = "ocr"
    /\ ocr_lang \in 1..Len(Langs)
    /\ readers[ocr_lang]
    /\ LET call == TryLanguage(variant, o, Langs[ocr_lang]) IN
         /\ ocr_calls' = Append(ocr_calls, call)
         /\ ext_results' = IF call.processed # <<>>
                              THEN Append(ext_results, <<Langs[ocr_lang], call.processed>>)
                              ELSE ext_results
    /\ ocr_lang' = ocr_lang + 1
    /\ UNCHANGED <<completions, readers, ext_pc, ext_return, ext_raised, adapterVars, recVars,
                   runVars, mergeVars, restVars>>

\* Variant of CallModel that repeats a completion request that failed.
CallModel_RetryOnFailure(o) ==
    /\ \/ ext_pc = "returned" /\ ext_return # <<>>
       \/ ext_pc = "mapped" /\ completions = <<"completion_raises">>
    /\ o \in (IF variant = "host" THEN AiOutcomes ELSE CliOutcomes)
    /\ completions' = IF o.kind = "client_raises" THEN completions
                      ELSE Append(completions, o.kind)
    /\ ext_pc' = "mapped"
    /\ UNCHANGED <<readers, ocr_lang, ocr_calls, ext_results, ext_return,
                   ext_raised, adapterVars, recVars, runVars, mergeVars, restVars>>

\* The caller hands the extracted spans to the mapper, which makes its
\* completion request once the client is built; a failure is handled by
\* the mapper's except clause.
CallModel(o) ==
    /\ ext_pc = "returned"
    /\ ext_return # <<>>
    /\ o \in (IF variant = "host" THEN AiOutcomes ELSE CliOutcomes)
    /\ completions' = IF o.kind = "client_raises" THEN completions
                      ELSE Append(completions, o.kind)
    /\ ext_pc' = "mapped"
    /\ UNCHANGED <<readers, ocr_lang, ocr_calls, ext_results, ext_return,
                   ext_raised, adapterVars, recVars, runVars, mergeVars, restVars>>

\* if not results: return []; otherwise the merged list is returned.
ExtractFinish ==
    /\ ext_pc = "ocr"
    /\ ocr_lang = Len(Langs) + 1
    /\ ext_return' = IF ext_results = <<>> THEN <<>>
                     ELSE CombineAllLanguageResults(ext_results)
    /\ ext_pc' = "returned"
    /\ UNCHANGED <<completions, readers, ocr_lang, ocr_calls, ext_results, ext_raised,
                   adapterVars, recVars, runVars, mergeVars, restVars>>

InitExtract ==
    /\ HostInit
    /\ MergeIdle
    /\ RestIdle
    /\ variant \in Variants
    /\ shape = "dict"
    /\ raw_results = <<>>
    /\ adapter_return = <<>>
    /\ adapter_pc = "idle"
    /\ readers \in [1..Len(Langs) -> BOOLEAN]
    /\ ocr_lang = 0
    /\ ocr_calls = <<>>
    /\ ext_results = <<>>
    /\ ext_pc = "start"
    /\ ext_return = <<>>
    /\ ext_raised = NoExc
    /\ completions = <<>>

NextExtract ==
    \/ CliInit
    \/ CheckReaders
    \/ SkipLanguage
    \/ \E o \in OcrOutcomes : TryOcr(o)
    \/ ExtractFinish
    \/ \E o \in AiOutcomes : CallModel(o)

SpecExtract == InitExtract /\ [][NextExtract]_vars

(* ---------------------------------------------------------------------- *)
(* Text extraction: properties                                            *)
(* ---------------------------------------------------------------------- *)

ExtractEnded == ext_pc \in {"returned", "raised"}

NoReader == \A l \in 1..Len(Langs) : ~readers[l]

\* C15 as stated: when no language reader could be initialised, extraction
\* returns an empty sequence and does not throw, in both variants.
C15_NoReaderReturnsEmpty ==
    (ExtractEnded /\ NoReader) => (ext_pc = "returned" /\ ext_return = <<>>)

\* C15, amended: when no language reader could be initialised, no language
\* is tried and nothing is returned: the host extraction raises the
\* wrapped "not properly initialized" error, and the command-line
\* constructor raises its initialization error.
C15_NoReaderRaises ==
    (ExtractEnded /\ NoReader) =>
      /\ ext_pc = "raised"
      /\ ocr_calls = <<>>
      /\ ext_return = <<>>
      /\ variant = "host" => ext_raised = ExtractError(NotInitializedMsg)
      /\ variant = "cli" => ext_raised = InitializeError

C15_Witness ==
    /\ variant = "host"
    /\ NoReader
    /\ ext_pc = "raised"
    /\ Contains(ext_raised, "PaddleOCR is not properly initialized. ")

\* The hypotheses that produced spans, in the order of the languages.
RECURSIVE Succeeded(_)
Succeeded(i) ==
    IF i > Len(ocr_calls) THEN <<>>
    ELSE (IF ocr_calls[i].processed # <<>>
            THEN <<<<Langs[i], ocr_calls[i].processed>>>>
            ELSE <<>>) \o Succeeded(i + 1)

\* The extraction got past its initial check.
OcrStarted ==
    IF variant = "host" THEN ~NoReader ELSE \A l \in 1..Len(Langs) : readers[l]

\* C16: a language whose OCR call raises or returns nothing does not keep
\* the other languages from being tried: the extraction returns the merge
\* of the hypotheses that produced spans, and returns the empty list only
\* when no language produced any.
C16_OneLanguageFailureIsLocal ==
    (ExtractEnded /\ OcrStarted) =>
      /\ ext_pc = "returned"
      /\ Len(ocr_calls) = Len(Langs)
      /\ \A l \in 1..Len(Langs) : (ocr_calls[l].kind # "skipped") <=> readers[l]
      /\ ext_return = CombineAllLanguageResults(Succeeded(1))
      /\ (ext_return = <<>>) <=> (\A l \in 1..Len(Langs) : ocr_calls[l].processed = <<>>)

\* The first language raises, the second gives nothing, the third succeeds.
C16_Witness ==
    /\ ext_pc = "returned"
    /\ Len(ocr_calls) = 3
    /\ ocr_calls[1].kind = "raises"
    /\ ocr_calls[2].kind = "nothing"
    /\ ocr_calls[3].kind = "response"
    /\ Len(ext_return) = 2

(* ---------------------------------------------------------------------- *)
(* Regex fallback extractor: the calls                                    *)
(* ---------------------------------------------------------------------- *)

\* Pieces a text is put together from.
MaxPieces == 3

EmailText == <<"j", "o", "h", "n", ".", "s", "m", "i", "t", "h", "@", "t", "e", "c", "h", "c", "o", "r", "p", ".", "c", "o", "m">>

PhoneText == <<"+", "1", "-", "5", "5", "5", "-", "0", "1", "2", "3">>

WebsiteText == <<"w", "w", "w", ".", "t", "e", "c", "h", "c", "o", "r", "p", ".", "c", "o", "m">>

\* "John Smith john.smith@techcorp.com +1-555-0123 www.techcorp.com Other info"
ExampleText ==
    <<"J", "o", "h", "n", " ", "S", "m", "i", "t", "h", " ">> \o EmailText
    \o <<" ">> \o PhoneText \o <<" ">> \o WebsiteText
    \o <<" ", "O", "t", "h", "e", "r", " ", "i", "n", "f", "o">>

Pieces ==
    {<<" ">>, <<"5", "5", "5", "0", "1", "2", "3">>, <<"+", "1">>,
     <<"a", "@", "b", ".", "c", "o">>, <<"w", "w", "w", ".", "b", ".", "c", "o">>, <<"x", "_", "y">>}

\* One more piece at the end of the text.
AppendPiece(p) ==
    /\ fb_pc = "input"
    /\ fb_count < MaxPieces
    /\ fb_text' = fb_text \o p
    /\ fb_count' = fb_count + 1
    /\ UNCHANGED <<fb_result, fb_pc, recVars, runVars, mergeVars, adapterVars,
                   extractVars, cliVars, vcardVars, moreVars>>

\* The call of _fallback_text_parsing on the text.
FallbackCall ==
    /\ fb_pc = "input"
    /\ fb_result' = FallbackTextParsing(fb_text)
    /\ fb_pc' = "returned"
    /\ UNCHANGED <<fb_text, fb_count, recVars, runVars, mergeVars, adapterVars,
                   extractVars, cliVars, vcardVars, moreVars>>

InitFallback ==
    /\ HostInit
    /\ MergeIdle
    /\ AdapterIdle
    /\ ExtractIdle
    /\ CliIdle
    /\ VcardIdle
    /\ MoreIdle
    /\ variant = "host"
    /\ fb_text \in {<<>>, ExampleText}
    /\ fb_count = 0
    /\ fb_result = NoData
    /\ fb_pc = "input"

NextFallback ==
    \/ \E p \in Pieces : AppendPiece(p)
    \/ FallbackCall

SpecFallback == InitFallback /\ [][NextFallback]_vars

(* ---------------------------------------------------------------------- *)
(* Regex fallback extractor: properties                                   *)
(* ---------------------------------------------------------------------- *)

\* C19: for the text "John Smith john.smith@techcorp.com +1-555-0123
\* www.techcorp.com Other info" the fallback extractor yields the email
\* john.smith@techcorp.com, the phone +1-555-0123, the website
\* www.techcorp.com, and the whole text as other.
C19_ExampleYieldsEmailPhoneWebsite ==
    (fb_pc = "returned" /\ fb_text = ExampleText) =>
      /\ DOMAIN fb_result = {"email", "phone", "website", "other"}
      /\ fb_result["email"] = EmailText
      /\ fb_result["phone"] = PhoneText
      /\ fb_result["website"] = WebsiteText
      /\ fb_result["other"] = ExampleText

(* ---------------------------------------------------------------------- *)
(* vCard export: NameCardController._generate_vcard                       *)
(* ---------------------------------------------------------------------- *)

\* Characters of a contact name.
MaxNameLen == 5

NameChars == {"J", "S", " "}

\* The fields other than contact_name, in the order of their lines.
OtherFields ==
    <<"company_name", "job_title", "email", "phone", "mobile", "website",
      "address", "other_info">>

\* What precedes the value in the line of a field, and what follows it.
LinePrefix ==
    [company_name |-> "ORG:", job_title |-> "TITLE:", email |-> "EMAIL:",
     phone |-> "TEL;TYPE=WORK:", mobile |-> "TEL;TYPE=CELL:", website |-> "URL:",
     address |-> "ADR;TYPE=WORK:;;", other_info |-> "NOTE:"]

LineSuffix(f) == IF f = "address" THEN <<";;;;">> ELSE <<>>

\* str.split(): the maximal runs of characters that are not white space.
RECURSIVE SplitFrom(_, _, _, _)
SplitFrom(text, i, word, parts) ==
    IF i > Len(text)
      THEN IF word = <<>> THEN parts ELSE Append(parts, word)
    ELSE IF IsSpace(text[i])
      THEN SplitFrom(text, i + 1, <<>>,
                     IF word = <<>> THEN parts ELSE Append(parts, word))
    ELSE SplitFrom(text, i + 1, Append(word, text[i]), parts)

Split(text) == SplitFrom(text, 1, <<>>, <<>>)

\* " ".join(parts)
RECURSIVE JoinWithSpace(_)
JoinWithSpace(parts) ==
    IF parts = <<>> THEN <<>>
    ELSE IF Len(parts) = 1 THEN Head(parts)
    ELSE Head(parts) \o <<" ">> \o JoinWithSpace(Tail(parts))

\* Variant of NameLines that takes the first token as the family name.
NameLines_FirstIsFamily(full_name) ==
    IF full_name = <<>> THEN <<>>
    ELSE LET name_parts == Split(full_name) IN
         <<<<"FN:">> \o full_name,
           IF Len(name_parts) >= 2
             THEN <<"N:">> \o name_parts[1] \o <<";">>
                  \o JoinWithSpace(Tail(name_parts)) \o <<";;;">>
             ELSE <<"N:">> \o full_name \o <<";;;;">>>>

\* The FN and N lines: none when full_name is empty.
NameLines(full_name) ==
    IF full_name = <<>> THEN <<>>
    ELSE LET name_parts == Split(full_name) IN
         <<<<"FN:">> \o full_name,
           IF Len(name_parts) >= 2
             THEN <<"N:">> \o name_parts[Len(name_parts)] \o <<";">>
                  \o JoinWithSpace(SubSeq(name_parts, 1, Len(name_parts) - 1))
                  \o <<";;;">>
             ELSE <<"N:">> \o full_name \o <<";;;;">>>>

\* The lines of the fields from the k-th on, each only when its field is set.
RECURSIVE FieldLines(_, _)
FieldLines(namecard, k) ==
    IF k > Len(OtherFields) THEN <<>>
    ELSE (IF namecard[OtherFields[k]] # <<>>
            THEN <<<<LinePrefix[OtherFields[k]]>> \o namecard[OtherFields[k]]
                   \o LineSuffix(OtherFields[k])>>
            ELSE <<>>)
         \o FieldLines(namecard, k + 1)

\* _generate_vcard(namecard): vcard_lines, which the return joins with
\* line breaks.
GenerateVcard(namecard) ==
    <<<<"BEGIN:VCARD">>, <<"VERSION:3.0">>>>
    \o NameLines(namecard["contact_name"])
    \o FieldLines(namecard, 1)
    \o <<<<"END:VCARD">>>>

\* The records whose contact_name is still empty: every other field is
\* empty or set.
VcardRecords ==
    {[f \in {"contact_name"} \cup {OtherFields[k] : k \in 1..Len(OtherFields)} |->
        IF f \in P THEN <<"x">> ELSE <<>>] :
       P \in SUBSET {OtherFields[k] : k \in 1..Len(OtherFields)}}

\* The keys of the exported JSON data that name a contact field, and the
\* field each of them reads.
ExportKeys ==
    [name |-> "contact_name", title |-> "job_title", company |-> "company_name",
     email |-> "email", phone |-> "phone", mobile |-> "mobile",
     website |-> "website", address |-> "address", other |-> "other_info"]

\* json.dumps of a field value: a JSON string of the characters of a set
\* field, false for an unset one.
JsonValue(v) ==
    IF v = <<>> THEN [type |-> "false", chars |-> <<>>]
    ELSE [type |-> "string", chars |-> v]

\* Variant of JsonData whose key phone reads the field mobile.
JsonData_PhoneFromMobile(namecard) ==
    [k \in DOMAIN ExportKeys |->
       JsonValue(namecard[IF k = "phone" THEN "mobile" ELSE ExportKeys[k]])]

\* export_namecard, format == 'json': the contact keys of data, as the
\* document carries them.
JsonData(namecard) ==
    [k \in DOMAIN ExportKeys |-> JsonValue(namecard[ExportKeys[k]])]

\* The export of the record with format 'json'.
ExportJson ==
    /\ vc_pc = "input"
    /\ ex_json' = JsonData(vc_record)
    /\ vc_pc' = "json"
    /\ UNCHANGED <<vc_record, vc_lines, recVars, runVars, mergeVars, adapterVars,
                   extractVars, fallbackVars, cliVars, moreVars>>

\* One more character of contact_name.
AddNameChar(c) ==
    /\ vc_pc = "input"
    /\ Len(vc_record["contact_name"]) < MaxNameLen
    /\ vc_record' = [vc_record EXCEPT !["contact_name"] = Append(@, c)]
    /\ UNCHANGED <<vc_lines, vc_pc, ex_json, recVars, runVars, mergeVars,
                   adapterVars, extractVars, fallbackVars, cliVars, moreVars>>

\* The call of _generate_vcard on the record (the export with format
\* 'vcard'), on its own or after the export as JSON.
VcardCall ==
    /\ vc_pc \in {"input", "json"}
    /\ vc_lines' = GenerateVcard(vc_record)
    /\ vc_pc' = "returned"
    /\ UNCHANGED <<vc_record, ex_json, recVars, runVars, mergeVars, adapterVars,
                   extractVars, fallbackVars, cliVars, moreVars>>

InitVcard ==
    /\ HostInit
    /\ MergeIdle
    /\ AdapterIdle
    /\ ExtractIdle
    /\ FallbackIdle
    /\ CliIdle
    /\ MoreIdle
    /\ variant = "host"
    /\ vc_record \in VcardRecords
    /\ vc_lines = <<>>
    /\ vc_pc = "input"
    /\ ex_json = NoData

NextVcard ==
    \/ \E c \in NameChars : AddNameChar(c)
    \/ ExportJson
    \/ VcardCall

SpecVcard == InitVcard /\ [][NextVcard]_vars

(* ---------------------------------------------------------------------- *)
(* vCard export: properties                                               *)
(* ---------------------------------------------------------------------- *)

HasLine(line) == \E i \in 1..Len(vc_lines) : vc_lines[i] = line

\* C20: a contact_name of two or more tokens gives FN:<contact_name> and
\* N:<last token>;<the other tokens joined by one space>;;; and a name of
\* one token gives N:<name>;;;; each other field has its line exactly
\* when it is not empty, and all lines stand between BEGIN:VCARD,
\* VERSION:3.0 and a final END:VCARD.
C20_VcardLines ==
    vc_pc = "returned" =>
      LET name == vc_record["contact_name"]
          tokens == Split(name)
          n == Len(vc_lines) IN
      /\ n >= 3
      /\ vc_lines[1] = <<"BEGIN:VCARD">>
      /\ vc_lines[2] = <<"VERSION:3.0">>
      /\ vc_lines[n] = <<"END:VCARD">>
      /\ Len(tokens) >= 2 =>
           /\ HasLine(<<"FN:">> \o name)
           /\ HasLine(<<"N:">> \o tokens[Len(tokens)] \o <<";">>
                      \o JoinWithSpace(SubSeq(tokens, 1, Len(tokens) - 1))
                      \o <<";;;">>)
      /\ Len(tokens) = 1 => HasLine(<<"N:">> \o name \o <<";;;;">>)
      /\ name = <<"J", " ", "S">> => HasLine(<<"N:", "S", ";", "J", ";;;">>)
      /\ \A k \in 1..Len(OtherFields) :
           LET f == OtherFields[k] IN
           /\ vc_record[f] # <<>> =>
                HasLine(<<LinePrefix[f]>> \o vc_record[f] \o LineSuffix(f))
           /\ \A i \in 1..n :
                Head(vc_lines[i]) = LinePrefix[f] =>
                  (vc_record[f] # <<>> /\ i > 2 /\ i < n)

\* A name of three tokens, on a record with a set and an empty field.
C20_Witness ==
    /\ vc_pc = "returned"
    /\ Len(Split(vc_record["contact_name"])) = 3
    /\ vc_record["email"] # <<>>
    /\ vc_record["phone"] = <<>>
    /\ Len(vc_lines) = 9

\* The value the vCard line of field f carries: what stands between the
\* prefix of the line and its suffix.
CarriedValues(f) ==
    LET prefix == IF f = "contact_name" THEN "FN:" ELSE LinePrefix[f]
        suffix == IF f = "contact_name" THEN <<>> ELSE LineSuffix(f) IN
    {SubSeq(vc_lines[i], 2, Len(vc_lines[i]) - Len(suffix)) :
       i \in {j \in 1..Len(vc_lines) : Head(vc_lines[j]) = prefix}}

\* C21: when a record is exported as JSON and then as vCard, the JSON
\* value of every contact field that is not empty is the string that the
\* field's vCard line carries, and neither export changes the record.
C21_ExportsCarrySameValues ==
    /\ [](vc_pc = "returned" /\ ex_json # NoData =>
            \A k \in DOMAIN ExportKeys :
              vc_record[ExportKeys[k]] # <<>> =>
                /\ ex_json[k].type = "string"
                /\ CarriedValues(ExportKeys[k]) = {ex_json[k].chars})
    /\ [][(ex_json' # ex_json \/ vc_lines' # vc_lines) =>
            vc_record' = vc_record]_vars

\* Both exports made, of a record with a name, a phone and no mobile.
C21_Witness ==
    /\ vc_pc = "returned"
    /\ ex_json # NoData
    /\ vc_record["contact_name"] = <<"J", " ", "S">>
    /\ vc_record["phone"] # <<>>
    /\ vc_record["mobile"] = <<>>
    /\ vc_record["address"] # <<>>

(* ---------------------------------------------------------------------- *)
(* Bulk upload: bulk_upload_namecards                                     *)
(* ---------------------------------------------------------------------- *)

\* Files of one request.
MaxFiles == 3

\* A file name is the list of its parts between dots; the empty list is
\* the empty file name.
Filenames == {<<>>, <<"a", "jpg">>, <<"b", "PNG">>, <<"c", "txt">>}

\* str.lower() of a part of a file name.
LowerPart(part) == IF part = "PNG" THEN "png" ELSE part

allowed_extensions == {"jpg", "jpeg", "png", "gif", "bmp", "tiff"}

\* image_file.filename.lower().split('.')[-1]
FileExt(filename) == LowerPart(filename[Len(filename)])

\* What reading the file and creating its record do.
UploadOutcomes == {"ok", "read_raises", "create_raises"}

UploadError ==
    [read_raises |-> <<"cannot read the upload">>,
     create_raises |-> <<"cannot create the record">>]

SubmittedFiles == [filename : Filenames, outcome : UploadOutcomes]

\* One more file in the request.
SubmitFile(f) ==
    /\ bu_pc = "input"
    /\ Len(bu_files) < MaxFiles
    /\ bu_files' = Append(bu_files, f)
    /\ UNCHANGED <<bu_i, bu_results, bu_created, bu_return, bu_pc, bulkFrame>>

\* The request arrives: without files the error document is returned.
BulkUpload ==
    /\ bu_pc = "input"
    /\ IF bu_files = <<>>
         THEN /\ bu_return' = [error |-> <<"No image files provided">>]
              /\ bu_pc' = "returned"
              /\ UNCHANGED bu_i
         ELSE /\ bu_i' = 1
              /\ bu_pc' = "loop"
              /\ UNCHANGED bu_return
    /\ UNCHANGED <<bu_files, bu_results, bu_created, bulkFrame>>

\* The entries appended for a rejected file, a created record and a
\* caught exception.
InvalidTypeEntry(filename) ==
    [filename |-> filename, success |-> FALSE, error |-> <<"Invalid file type">>]

SuccessEntry(filename, id) ==
    [filename |-> filename, success |-> TRUE, namecard_id |-> id]

ExceptionEntry(filename, e) ==
    [filename |-> filename, success |-> FALSE, error |-> e]

\* Variant of UploadFile in which a rejected or failing file ends the loop.
UploadFile_StopAtFailure ==
    /\ bu_pc = "loop"
    /\ bu_i <= Len(bu_files)
    /\ LET image_file == bu_files[bu_i] IN
       IF image_file.filename = <<>>
         THEN /\ bu_i' = bu_i + 1
              /\ UNCHANGED <<bu_results, bu_created>>
       ELSE IF FileExt(image_file.filename) \notin allowed_extensions
         THEN /\ bu_results' = Append(bu_results, InvalidTypeEntry(image_file.filename))
              /\ bu_i' = Len(bu_files) + 1
              /\ UNCHANGED bu_created
       ELSE IF image_file.outcome = "ok"
         THEN /\ bu_created' = Append(bu_created, Len(bu_created) + 1)
              /\ bu_results' = Append(bu_results,
                     SuccessEntry(image_file.filename, Len(bu_created) + 1))
              /\ bu_i' = bu_i + 1
       ELSE /\ bu_results' = Append(bu_results,
                   ExceptionEntry(image_file.filename, UploadError[image_file.outcome]))
            /\ bu_i' = Len(bu_files) + 1
            /\ UNCHANGED bu_created
    /\ UNCHANGED <<bu_files, bu_return, bu_pc, bulkFrame>>

\* One pass of the loop over files: the file without a name is skipped,
\* the file of another type is rejected, the record is created, and an
\* exception of the pass is caught and reported.
UploadFile ==
    /\ bu_pc = "loop"
    /\ bu_i <= Len(bu_files)
    /\ LET image_file == bu_files[bu_i] IN
       IF image_file.filename = <<>>
         THEN UNCHANGED <<bu_results, bu_created>>
       ELSE IF FileExt(image_file.filename) \notin allowed_extensions
         THEN /\ bu_results' = Append(bu_results, InvalidTypeEntry(image_file.filename))
              /\ UNCHANGED bu_created
       ELSE IF image_file.outcome = "ok"
         THEN /\ bu_created' = Append(bu_created, Len(bu_created) + 1)
              /\ bu_results' = Append(bu_results,
                     SuccessEntry(image_file.filename, Len(bu_created) + 1))
       ELSE /\ bu_results' = Append(bu_results,
                   ExceptionEntry(image_file.filename, UploadError[image_file.outcome]))
            /\ UNCHANGED bu_created
    /\ bu_i' = bu_i + 1
    /\ UNCHANGED <<bu_files, bu_return, bu_pc, bulkFrame>>

\* len([r for r in results if r['success']])
RECURSIVE CountSuccess(_)
CountSuccess(entries) ==
    IF entries = <<>> THEN 0
    ELSE (IF Head(entries).success THEN 1 ELSE 0) + CountSuccess(Tail(entries))

\* After the loop: the document with the results and the two counts.
BulkReturn ==
    /\ bu_pc = "loop"
    /\ bu_i > Len(bu_files)
    /\ bu_return' = [success |-> TRUE, results |-> bu_results,
                     total_files |-> Len(bu_files),
                     successful_uploads |-> CountSuccess(bu_results)]
    /\ bu_pc' = "returned"
    /\ UNCHANGED <<bu_files, bu_i, bu_results, bu_created, bulkFrame>>

InitBulk ==
    /\ HostInit
    /\ MergeIdle
    /\ AdapterIdle
    /\ ExtractIdle
    /\ FallbackIdle
    /\ CliIdle
    /\ VcardIdle
    /\ BatchIdle
    /\ PartnerIdle
    /\ CacheIdle
    /\ UpdateIdle
    /\ variant = "host"
    /\ bu_files = <<>>
    /\ bu_i = 0
    /\ bu_results = <<>>
    /\ bu_created = <<>>
    /\ bu_return = NoData
    /\ bu_pc = "input"

NextBulk ==
    \/ \E f \in SubmittedFiles : SubmitFile(f)
    \/ BulkUpload
    \/ UploadFile
    \/ BulkReturn

SpecBulk == InitBulk /\ [][NextBulk]_vars

(* ---------------------------------------------------------------------- *)
(* Bulk upload: properties                                                *)
(* ---------------------------------------------------------------------- *)

HasName(f) == f.filename # <<>>

\* C22: every submitted file is processed whatever happened to the files
\* before it: the files with a name have one result entry each, in their
\* order, a success with a namecard_id or a failure with an error;
\* successful_uploads counts the success entries, total_files the
\* submitted files, and the records created are those of the success
\* entries.
C22_BulkUploadReportsEveryFile ==
    (bu_pc = "returned" /\ bu_files # <<>>) =>
      LET named == SelectSeq(bu_files, HasName)
          entries == bu_return.results
          successes == {k \in 1..Len(entries) : entries[k].success} IN
      /\ Len(entries) = Len(named)
      /\ \A k \in 1..Len(entries) :
           /\ entries[k].filename = named[k].filename
           /\ IF entries[k].success
                THEN DOMAIN entries[k] = {"filename", "success", "namecard_id"}
                ELSE /\ DOMAIN entries[k] = {"filename", "success", "error"}
                     /\ entries[k].error # <<>>
      /\ bu_return.successful_uploads = Cardinality(successes)
      /\ bu_return.total_files = Len(bu_files)
      /\ Len(bu_created) = Cardinality(successes)
      /\ {bu_created[j] : j \in 1..Len(bu_created)}
           = {entries[k].namecard_id : k \in successes}

\* A rejected file and a file whose record creation raises, followed by a
\* file that is uploaded.
C22_Witness ==
    /\ bu_pc = "returned"
    /\ Len(bu_files) = 3
    /\ \A k \in 1..3 : bu_files[k].filename # <<>>
    /\ FileExt(bu_files[1].filename) \notin allowed_extensions
    /\ bu_files[2].filename # <<>>
    /\ FileExt(bu_files[2].filename) \in allowed_extensions
    /\ bu_files[2].outcome = "create_raises"
    /\ bu_return.successful_uploads = 1
    /\ bu_return.results[3].success

(* ---------------------------------------------------------------------- *)
(* Command-line variant: process_folder and process_google_drive_folder   *)
(* ---------------------------------------------------------------------- *)

\* Images listed in one folder.
MaxImages == 2

Sources == {"folder", "drive"}

\* What download_image does: the temporary file is written and its name
\* returned; the request fails after the temporary file was created; it
\* fails before.  In both failures the handler returns None.
DownloadOutcomes == {"downloaded", "fails_after_create", "fails_before_create"}

\* A mapping with one more key.
With(mapping, key, value) ==
    [k \in DOMAIN mapping \cup {key} |-> IF k = key THEN value ELSE mapping[k]]

\* The entry of image i made from what process_name_card returned.
CardEntry(source, result, i) ==
    LET named == With(With(result, "file_index", i), "filename", i) IN
    IF source = "drive"
      THEN With(With(named, "drive_file_id", i), "file_size", 0)
      ELSE named

\* The entry of an image that could not be downloaded.
DownloadFailedEntry(i) ==
    [file_index |-> i, filename |-> i, drive_file_id |-> i,
     error |-> <<"Failed to download from Google Drive">>]

\* len([r for r in results if "error" not in r]) and its complement.
RECURSIVE CountFailed(_)
CountFailed(entries) ==
    IF entries = <<>> THEN 0
    ELSE (IF "error" \in DOMAIN Head(entries) THEN 1 ELSE 0)
         + CountFailed(Tail(entries))

CountSuccessful(entries) == Len(entries) - CountFailed(entries)

\* folder_result
FolderResult(source, total, entries) ==
    LET report ==
          [total_images |-> total, processed_images |-> Len(entries),
           results |-> entries,
           summary |-> [successful |-> CountSuccessful(entries),
                        failed |-> CountFailed(entries)]] IN
    IF source = "drive"
      THEN With(report, "source", "google_drive")
      ELSE With(report, "folder_path", "folder")

\* The checks before the loop: the folder exists (the Drive folder is
\* found and listed) and holds an image.
BatchStart(found) ==
    /\ ba_pc = "start"
    /\ IF ~found
         THEN /\ ba_report' = [error |-> <<"Folder not found: ">>]
              /\ ba_pc' = "returned"
              /\ UNCHANGED ba_i
       ELSE IF ba_total = 0
         THEN /\ ba_report' = [error |-> <<"No image files found in folder">>]
              /\ ba_pc' = "returned"
              /\ UNCHANGED ba_i
       ELSE /\ ba_i' = 1
            /\ ba_pc' = "loop"
            /\ UNCHANGED ba_report
    /\ UNCHANGED <<ba_source, ba_total, ba_results, ba_temp_files, ba_disk,
                   cliVars, batchFrame>>

\* process_folder: the loop calls process_name_card on the next image.
FolderItem ==
    /\ ba_source = "folder"
    /\ ba_pc = "loop"
    /\ ba_i <= ba_total
    /\ ba_pc' = "card"
    /\ UNCHANGED <<ba_source, ba_total, ba_i, ba_results, ba_temp_files,
                   ba_disk, ba_report, cliVars, batchFrame>>

\* process_google_drive_folder: the loop downloads the next image; with
\* a temp_path it calls process_name_card, without one it appends the
\* error entry.
DownloadImage(outcome) ==
    /\ ba_source = "drive"
    /\ ba_pc = "loop"
    /\ ba_i <= ba_total
    /\ ba_disk' = IF outcome = "fails_before_create" THEN ba_disk
                  ELSE ba_disk \cup {ba_i}
    /\ IF outcome = "downloaded"
         THEN /\ ba_temp_files' = Append(ba_temp_files, ba_i)
              /\ ba_pc' = "card"
              /\ UNCHANGED <<ba_i, ba_results>>
         ELSE /\ ba_results' = Append(ba_results, DownloadFailedEntry(ba_i))
              /\ ba_i' = ba_i + 1
              /\ UNCHANGED <<ba_temp_files, ba_pc>>
    /\ UNCHANGED <<ba_source, ba_total, ba_report, cliVars, batchFrame>>

\* process_name_card has returned: its result becomes the entry of the
\* image.
CollectResult ==
    /\ ba_pc = "card"
    /\ cli_pc = "returned"
    /\ ba_results' = Append(ba_results, CardEntry(ba_source, cli_return, ba_i))
    /\ ba_i' = ba_i + 1
    /\ ba_pc' = "loop"
    /\ cli_pc' = "idle"
    /\ cli_extracted' = <<>>
    /\ cli_response' = NoOutcome
    /\ cli_result' = NoData
    /\ cli_return' = NoData
    /\ UNCHANGED <<ba_source, ba_total, ba_temp_files, ba_disk, ba_report,
                   cli_raised, batchFrame>>

\* process_name_card has raised: the loop has no handler and the batch
\* run ends with the exception.
BatchRaises ==
    /\ ba_pc = "card"
    /\ cli_pc = "raised"
    /\ ba_pc' = "raised"
    /\ UNCHANGED <<ba_source, ba_total, ba_i, ba_results, ba_temp_files,
                   ba_disk, ba_report, cliVars, batchFrame>>

\* Clean up temporary files: os.unlink of every name in temp_files; a
\* failure of an unlink is passed over.
CleanUp(failed) ==
    /\ ba_source = "drive"
    /\ ba_pc = "loop"
    /\ ba_i > ba_total
    /\ failed \subseteq {ba_temp_files[k] : k \in 1..Len(ba_temp_files)}
    /\ ba_disk' = ba_disk \ ({ba_temp_files[k] : k \in 1..Len(ba_temp_files)} \ failed)
    /\ ba_pc' = "summary"
    /\ UNCHANGED <<ba_source, ba_total, ba_i, ba_results, ba_temp_files,
                   ba_report, cliVars, batchFrame>>

\* Compile summary and return folder_result.
CompileSummary ==
    /\ \/ ba_source = "folder" /\ ba_pc = "loop" /\ ba_i > ba_total
       \/ ba_source = "drive" /\ ba_pc = "summary"
    /\ ba_report' = FolderResult(ba_source, ba_total, ba_results)
    /\ ba_pc' = "returned"
    /\ UNCHANGED <<ba_source, ba_total, ba_i, ba_results, ba_temp_files,
                   ba_disk, cliVars, batchFrame>>

InitBatch ==
    /\ HostInit
    /\ MergeIdle
    /\ AdapterIdle
    /\ ExtractIdle
    /\ FallbackIdle
    /\ CliIdle
    /\ VcardIdle
    /\ BulkIdle
    /\ PartnerIdle
    /\ CacheIdle
    /\ UpdateIdle
    /\ variant = "cli"
    /\ ba_source \in Sources
    /\ ba_total \in 0..MaxImages
    /\ ba_i = 0
    /\ ba_results = <<>>
    /\ ba_temp_files = <<>>
    /\ ba_disk = {}
    /\ ba_report = NoData
    /\ ba_pc = "start"

NextBatch ==
    \/ \E found \in BOOLEAN : BatchStart(found)
    \/ FolderItem
    \/ \E outcome \in DownloadOutcomes : DownloadImage(outcome)
    \/ ba_pc = "card" /\ \E found \in BOOLEAN, d \in ExtractResults :
                           CliProcessNameCard(found, d)
    \/ ba_pc = "card" /\ \E o \in CliOutcomes : CliProcessWithHuggingface(o)
    \/ ba_pc = "card" /\ \E serializable \in BOOLEAN : CliDump(serializable)
    \/ CollectResult
    \/ BatchRaises
    \/ \E failed \in SUBSET (1..MaxImages) : CleanUp(failed)
    \/ CompileSummary

SpecBatch == InitBatch /\ [][NextBatch]_vars

(* ---------------------------------------------------------------------- *)
(* Folder and Google-Drive batch runs: properties                         *)
(* ---------------------------------------------------------------------- *)

C26_CleanupDeletesEveryTempFile ==
    /\ [][(ba_disk \ ba_disk' # {}) => ba_i > ba_total]_vars
    /\ []((ba_source = "drive" /\ ba_pc = "returned") => ba_disk = {})

(* ---------------------------------------------------------------------- *)
(* Host variant: action_create_partner                                    *)
(* ---------------------------------------------------------------------- *)

\* Calls of action_create_partner in one behaviour.
MaxPartnerCalls == 3

AlreadyLinkedMsg == <<"A contact is already linked to this name card">>

\* What res.partner.create(partner_vals) does.
PartnerOutcomes == {"created", "create_raises"}

\* record.contact_name or record.company_name or 'Unknown'
PartnerName(r) ==
    IF card_name[r] # <<>> THEN card_name[r]
    ELSE IF company_name[r] # <<>> THEN company_name[r]
    ELSE <<"Unknown">>

\* search([('name', '=', company_name), ('is_company', '=', True)], limit=1):
\* the ids of the companies of that name.
Companies(name) ==
    {k \in 1..Len(res_partner) :
       res_partner[k].is_company /\ res_partner[k].name = name}

\* The table after the company of card r was searched and, when none was
\* found, created.
WithCompany(r) ==
    IF company_name[r] # <<>> /\ card_name[r] # <<>> /\ Companies(company_name[r]) = {}
      THEN Append(res_partner,
                  [name |-> company_name[r], is_company |-> TRUE, parent_id |-> 0])
      ELSE res_partner

\* partner_vals['parent_id']: the company found or created, 0 without one.
ParentId(r) ==
    IF company_name[r] # <<>> /\ card_name[r] # <<>>
      THEN IF Companies(company_name[r]) # {}
             THEN CHOOSE k \in Companies(company_name[r]) :
                    \A j \in Companies(company_name[r]) : k <= j
             ELSE Len(res_partner) + 1
      ELSE 0

\* Variant of ActionCreatePartner without the test of record.partner_id.
ActionCreatePartner_NoLinkTest(r, outcome) ==
    /\ pa_calls < MaxPartnerCalls
    /\ pa_calls' = pa_calls + 1
    /\ pa_card' = r
    /\ IF outcome = "create_raises"
         THEN /\ pa_raised' = <<"cannot create the partner">>
              /\ UNCHANGED <<partner_id, res_partner, pa_return>>
       ELSE /\ res_partner' = Append(WithCompany(r),
                   [name |-> PartnerName(r), is_company |-> FALSE,
                    parent_id |-> ParentId(r)])
            /\ partner_id' = [partner_id EXCEPT ![r] = Len(WithCompany(r)) + 1]
            /\ pa_return' = Len(WithCompany(r)) + 1
            /\ pa_raised' = NoExc
    /\ UNCHANGED <<company_name, card_name, partnerFrame>>

\* action_create_partner() on card r: a linked card raises; otherwise the
\* company is searched or created, the contact is created and linked to
\* the card.  An exception of create() leaves the request, whose
\* transaction is rolled back.
ActionCreatePartner(r, outcome) ==
    /\ pa_calls < MaxPartnerCalls
    /\ pa_calls' = pa_calls + 1
    /\ pa_card' = r
    /\ IF partner_id[r] # 0
         THEN /\ pa_raised' = AlreadyLinkedMsg
              /\ UNCHANGED <<partner_id, res_partner, pa_return>>
       ELSE IF outcome = "create_raises"
         THEN /\ pa_raised' = <<"cannot create the partner">>
              /\ UNCHANGED <<partner_id, res_partner, pa_return>>
       ELSE /\ res_partner' = Append(WithCompany(r),
                   [name |-> PartnerName(r), is_company |-> FALSE,
                    parent_id |-> ParentId(r)])
            /\ partner_id' = [partner_id EXCEPT ![r] = Len(WithCompany(r)) + 1]
            /\ pa_return' = Len(WithCompany(r)) + 1
            /\ pa_raised' = NoExc
    /\ UNCHANGED <<company_name, card_name, partnerFrame>>

CardNames == {<<>>, <<"John Smith">>}

CompanyNames == {<<>>, <<"Tech Corp">>}

InitPartner ==
    /\ HostInit
    /\ MergeIdle
    /\ AdapterIdle
    /\ ExtractIdle
    /\ FallbackIdle
    /\ CliIdle
    /\ VcardIdle
    /\ BulkIdle
    /\ BatchIdle
    /\ CacheIdle
    /\ UpdateIdle
    /\ variant = "host"
    /\ company_name \in [RecIds -> CompanyNames]
    /\ card_name \in [RecIds -> CardNames]
    /\ partner_id = [r \in RecIds |-> 0]
    /\ res_partner = <<>>
    /\ pa_calls = 0
    /\ pa_card = 0
    /\ pa_raised = NoExc
    /\ pa_return = 0

NextPartner ==
    \E r \in RecIds, outcome \in PartnerOutcomes : ActionCreatePartner(r, outcome)

SpecPartner == InitPartner /\ [][NextPartner]_vars

(* ---------------------------------------------------------------------- *)
(* action_create_partner: properties                                      *)
(* ---------------------------------------------------------------------- *)

\* C24: a call on a card that has a linked partner raises the 'already
\* linked' error and creates no partner, and over any sequence of calls
\* the contacts created are those linked to the cards, at most one each.
C24_AtMostOnePartnerPerCard ==
    /\ [][\A r \in RecIds :
            (pa_calls' # pa_calls /\ pa_card' = r /\ partner_id[r] # 0) =>
              /\ pa_raised' = AlreadyLinkedMsg
              /\ res_partner' = res_partner
              /\ partner_id' = partner_id]_vars
    /\ [](LET contacts == {k \in 1..Len(res_partner) : ~res_partner[k].is_company}
               linked == {partner_id[r] : r \in RecIds} \ {0} IN
           /\ contacts = linked
           /\ Cardinality(contacts) = Cardinality({r \in RecIds : partner_id[r] # 0}))

\* A second call on a card with a contact and a company has raised.
C24_Witness ==
    /\ pa_calls >= 2
    /\ pa_raised = AlreadyLinkedMsg
    /\ partner_id[pa_card] # 0
    /\ res_partner[partner_id[pa_card]].parent_id # 0

(* ---------------------------------------------------------------------- *)
(* Host variant: the cache of readers, get_paddleocr_readers              *)
(* ---------------------------------------------------------------------- *)

\* Threads of the server process; each makes one processing run.
MaxThreads == 2

Threads == 1..MaxThreads

\* An entry of _readers: the key is not set, it is set to None, it is
\* set to a backend instance.
CacheEntries == {"unset", "None", "reader"}

EmptyCache == [l \in 1..Len(Langs) |-> "unset"]

\* not _readers: the dictionary has no key.
IsEmpty(cache) == \A l \in 1..Len(Langs) : cache[l] = "unset"

\* any(readers.values())
AnyReader(cache) == \E l \in 1..Len(Langs) : cache[l] = "reader"

\* Variant of GetPaddleocrReaders that initialises again when the cache
\* holds no reader.
GetPaddleocrReaders_RetryWithoutReader(t) ==
    /\ th_pc[t] = "idle"
    /\ th_status' = [th_status EXCEPT ![t] = "processing"]
    /\ IF ~AnyReader(readers_cache)
         THEN /\ th_pc' = [th_pc EXCEPT ![t] = "init"]
              /\ th_lang' = [th_lang EXCEPT ![t] = 1]
         ELSE /\ th_pc' = [th_pc EXCEPT ![t] = "return"]
              /\ UNCHANGED th_lang
    /\ UNCHANGED <<readers_cache, instances, th_returned, th_error, cacheFrame>>

\* The thread calls get_paddleocr_readers (from _extract_text_from_image,
\* in the run of action_process_card): the test of the cache.
GetPaddleocrReaders(t) ==
    /\ th_pc[t] = "idle"
    /\ th_status' = [th_status EXCEPT ![t] = "processing"]
    /\ IF IsEmpty(readers_cache)
         THEN /\ th_pc' = [th_pc EXCEPT ![t] = "init"]
              /\ th_lang' = [th_lang EXCEPT ![t] = 1]
         ELSE /\ th_pc' = [th_pc EXCEPT ![t] = "return"]
              /\ UNCHANGED th_lang
    /\ UNCHANGED <<readers_cache, instances, th_returned, th_error, cacheFrame>>

\* _readers[lang] = PaddleOCR(...), or None when the constructor raises.
InitializeReader(t, ok) ==
    /\ th_pc[t] = "init"
    /\ readers_cache' = [readers_cache EXCEPT
                           ![th_lang[t]] = IF ok THEN "reader" ELSE "None"]
    /\ instances' = [instances EXCEPT ![th_lang[t]] = @ + (IF ok THEN 1 ELSE 0)]
    /\ IF th_lang[t] < Len(Langs)
         THEN /\ th_lang' = [th_lang EXCEPT ![t] = @ + 1]
              /\ UNCHANGED th_pc
         ELSE /\ th_pc' = [th_pc EXCEPT ![t] = "return"]
              /\ UNCHANGED th_lang
    /\ UNCHANGED <<th_returned, th_status, th_error, cacheFrame>>

\* return _readers
ReturnReaders(t) ==
    /\ th_pc[t] = "return"
    /\ th_returned' = [th_returned EXCEPT ![t] = readers_cache]
    /\ th_pc' = [th_pc EXCEPT ![t] = "check"]
    /\ UNCHANGED <<readers_cache, instances, th_lang, th_status, th_error,
                   cacheFrame>>

\* The rest of the run: without a reader _extract_text_from_image raises
\* and action_process_card records the error; with one the run goes on
\* and ends in 'done' or in another error.
CheckAndProcess(t, succeeds) ==
    /\ th_pc[t] = "check"
    /\ IF ~AnyReader(readers_cache)
         THEN /\ th_status' = [th_status EXCEPT ![t] = "error"]
              /\ th_error' = [th_error EXCEPT ![t] = ExtractError(NotInitializedMsg)]
       ELSE IF succeeds
         THEN /\ th_status' = [th_status EXCEPT ![t] = "done"]
              /\ UNCHANGED th_error
       ELSE /\ th_status' = [th_status EXCEPT ![t] = "error"]
            /\ th_error' = [th_error EXCEPT ![t] = NoTextMsg]
    /\ th_pc' = [th_pc EXCEPT ![t] = "done"]
    /\ UNCHANGED <<readers_cache, instances, th_lang, th_returned, cacheFrame>>

InitReaders ==
    /\ HostInit
    /\ MergeIdle
    /\ AdapterIdle
    /\ ExtractIdle
    /\ FallbackIdle
    /\ CliIdle
    /\ VcardIdle
    /\ BulkIdle
    /\ BatchIdle
    /\ PartnerIdle
    /\ UpdateIdle
    /\ variant = "host"
    /\ readers_cache = EmptyCache
    /\ instances = [l \in 1..Len(Langs) |-> 0]
    /\ th_pc = [t \in Threads |-> "idle"]
    /\ th_lang = [t \in Threads |-> 0]
    /\ th_returned = [t \in Threads |-> EmptyCache]
    /\ th_status = [t \in Threads |-> "draft"]
    /\ th_error = [t \in Threads |-> Falsy]

NextReaders ==
    \/ \E t \in Threads : GetPaddleocrReaders(t)
    \/ \E t \in Threads, ok \in BOOLEAN : InitializeReader(t, ok)
    \/ \E t \in Threads : ReturnReaders(t)
    \/ \E t \in Threads, succeeds \in BOOLEAN : CheckAndProcess(t, succeeds)

SpecReaders == InitReaders /\ [][NextReaders]_vars

(* ---------------------------------------------------------------------- *)
(* The cache of readers: properties                                       *)
(* ---------------------------------------------------------------------- *)

\* C25: each language's backend instance is constructed at most once, and
\* a call of get_paddleocr_readers returns the cache only when it holds
\* the entries of all three languages.
C25_ConstructedOnceAndReturnedComplete ==
    /\ \A l \in 1..Len(Langs) : instances[l] <= 1
    /\ \A t \in Threads :
         th_pc[t] \in {"check", "done"} =>
           \A l \in 1..Len(Langs) : th_returned[t][l] # "unset"

\* No thread is inside the initialisation, and the cache has been filled.
Initialised ==
    /\ \A t \in Threads : th_pc[t] # "init"
    /\ ~IsEmpty(readers_cache)

AllNone(cache) == \A l \in 1..Len(Langs) : cache[l] = "None"

\* C30: once the initialisation has run, the cache is not initialised
\* again: no call changes it or constructs a backend, also when it holds
\* None for every language; and every processing run that then gets that
\* cache ends in 'error' with the not-properly-initialised message.
C30_CacheNeverReinitialised ==
    /\ [][Initialised =>
            /\ readers_cache' = readers_cache
            /\ instances' = instances
            /\ \A t \in Threads : th_pc'[t] # "init"]_vars
    /\ [][\A t \in Threads :
            (Initialised /\ AllNone(readers_cache)
               /\ th_pc[t] = "check" /\ th_pc'[t] = "done") =>
              /\ th_status'[t] = "error"
              /\ Contains(th_error'[t], NotInitializedMsg[1])]_vars

\* The initialisation of all three languages failed, and a thread that
\* called afterwards has finished its run.
C30_Witness ==
    /\ Initialised
    /\ AllNone(readers_cache)
    /\ \E t, u \in Threads :
         /\ th_lang[t] = Len(Langs)
         /\ th_lang[u] = 0
         /\ th_pc[u] = "done"
         /\ th_status[u] = "error"
         /\ AllNone(th_returned[u])

(* ---------------------------------------------------------------------- *)
(* Text extraction and mapping: no retry                                  *)
(* ---------------------------------------------------------------------- *)

\* C27: in one run the OCR call of each language is made at most once, a
\* failed call is not repeated, the hypotheses are tried one after the
\* other in the order English, Japanese, Vietnamese, and the completion
\* request is made at most once, after the three hypotheses.
C27_NoRetry ==
    /\ Len(ocr_calls) <= Len(Langs)
    /\ ext_pc = "ocr" => Len(ocr_calls) = ocr_lang - 1
    /\ \A i \in 1..Len(ocr_calls) :
         /\ ocr_calls[i].kind = "skipped" <=> ~readers[i]
         /\ \A k \in 1..Len(ocr_calls[i].processed) :
              ocr_calls[i].processed[k].lang_combo = Langs[i]
    /\ Len(completions) <= 1
    /\ completions # <<>> => (ext_pc = "mapped" /\ Len(ocr_calls) = Len(Langs))

\* The English call failed, the Japanese one gave spans, and the one
\* completion request of the run failed.
C27_Witness ==
    /\ ext_pc = "mapped"
    /\ ocr_calls[1].failed
    /\ ocr_calls[2].processed # <<>>
    /\ completions = <<"completion_raises">>

(* ---------------------------------------------------------------------- *)
(* Host record: the error text of a record in 'done'                      *)
(* ---------------------------------------------------------------------- *)

\* C28: after any sequence of create, action_process_card and
\* action_reprocess operations a record whose processing_status is 'done'
\* has an empty processing_error: a record that ended in 'error' and is then
\* processed successfully by a direct action_process_card call does not keep
\* the error text of the failed run.
C28_DoneHasNoError ==
    pc = "return"
      => \A r \in exists :
            processing_status[r] = "done" => processing_error[r] = Falsy

(* ---------------------------------------------------------------------- *)
(* Field update: _update_from_structured_data over successive runs        *)
(* ---------------------------------------------------------------------- *)

\* Processing runs made on the record.
MaxUpdates == 2

\* field_mapping, in the order of the dict: (ai_field, odoo_field).
field_mapping ==
    <<<<"name", "contact_name">>, <<"title", "job_title">>,
      <<"company", "company_name">>, <<"email", "email">>,
      <<"phone", "phone">>, <<"mobile", "mobile">>,
      <<"website", "website">>, <<"address", "address">>,
      <<"other", "other_info">>>>

ContactFields == {field_mapping[i][2] : i \in 1..Len(field_mapping)}

\* The values a key of the structured data comes with, by character: the
\* empty string, a name, an address the constraint accepts and one it
\* refuses.
FieldValues ==
    {<<>>, <<"J", "D">>, <<"j", "@", "e", ".", "c", "o">>, <<"j", "@", "e">>}

\* The keys the structured data of the model may hold: two of the nine and
\* one that is not among them.
DataKeys == {"name", "email", "job_title"}

StructuredData == UNION {[ks -> FieldValues] : ks \in SUBSET DataKeys}

\* The record right after create: no contact field is set.
NewRecord ==
    [f \in ContactFields \cup {"processing_status", "processing_error"} |->
       IF f = "processing_status" THEN "draft" ELSE Falsy]

\* re.match(r'^[A-Za-z0-9._%+-]+@[A-Za-z0-9.-]+\.[A-Z|a-z]{2,}$', email)
EmailFormatMatches(v) ==
    \E i, j \in 1..Len(v) :
       /\ 1 < i /\ i + 1 < j /\ j + 2 <= Len(v)
       /\ v[i] = "@" /\ v[j] = "."
       /\ \A k \in 1..(i - 1) : v[k] \in EmailLocalChars
       /\ \A k \in (i + 1)..(j - 1) : v[k] \in DomainChars
       /\ \A k \in (j + 1)..Len(v) : v[k] \in TldChars

\* _check_email_format: str(e) of the ValidationError, or no exception.
CheckEmailFormat(v) ==
    IF v # Falsy /\ ~EmailFormatMatches(v)
      THEN <<"Invalid email format: ">> \o v
      ELSE NoExc

\* ai_field in structured_data, whatever its value.
Supplied_KeyPresent(sd, ai_field) == ai_field \in DOMAIN sd

\* ai_field in structured_data and structured_data[ai_field]
Supplied(sd, ai_field) == ai_field \in DOMAIN sd /\ sd[ai_field] # Falsy

\* The loop of _update_from_structured_data from the i-th pair on.  The
\* assignment of an email the constraint refuses raises; the refused value
\* is then in the record or not (stored).
RECURSIVE UpdateFromStructuredData(_, _, _, _)
UpdateFromStructuredData(rec, sd, i, stored) ==
    IF i > Len(field_mapping) THEN [record |-> rec, raised |-> NoExc]
    ELSE LET ai_field == field_mapping[i][1]
             odoo_field == field_mapping[i][2]
         IN IF ~Supplied(sd, ai_field)
              THEN UpdateFromStructuredData(rec, sd, i + 1, stored)
            ELSE IF odoo_field = "email" /\ CheckEmailFormat(sd[ai_field]) # NoExc
              THEN [record |-> IF stored
                                 THEN [rec EXCEPT ![odoo_field] = sd[ai_field]]
                                 ELSE rec,
                    raised |-> CheckEmailFormat(sd[ai_field])]
            ELSE UpdateFromStructuredData(
                   [rec EXCEPT ![odoo_field] = sd[ai_field]], sd, i + 1, stored)

\* action_process_card up to the call of _update_from_structured_data: the
\* status becomes 'processing' and _process_with_ai returns sd.
RunStarts(sd) ==
    /\ up_pc \in {"created", "reset"}
    /\ up_runs < MaxUpdates
    /\ up_runs' = up_runs + 1
    /\ up_record' = [up_record EXCEPT !["processing_status"] = "processing"]
    /\ up_before' = up_record'
    /\ up_data' = sd
    /\ up_pc' = "update"
    /\ UNCHANGED updateFrame

\* record._update_from_structured_data(structured_data)
UpdateRecord(stored) ==
    /\ up_pc = "update"
    /\ LET u == UpdateFromStructuredData(up_record, up_data, 1, stored) IN
         /\ up_record' = u.record
         /\ up_pc' = IF u.raised = NoExc THEN "updated" ELSE "raised"
    /\ UNCHANGED <<up_before, up_data, up_runs, updateFrame>>

\* The run ends: 'done' after the update, 'error' with str(e) when the
\* update raised.
RunEnds ==
    /\ up_pc \in {"updated", "raised"}
    /\ up_record' =
         IF up_pc = "updated"
           THEN [up_record EXCEPT !["processing_status"] = "done"]
           ELSE [up_record EXCEPT
                   !["processing_status"] = "error",
                   !["processing_error"] = CheckEmailFormat(up_data["email"])]
    /\ up_pc' = "ended"
    /\ UNCHANGED <<up_before, up_data, up_runs, updateFrame>>

\* action_reprocess before its call of action_process_card.
ReprocessReset ==
    /\ up_pc = "ended"
    /\ up_runs < MaxUpdates
    /\ up_record' = [up_record EXCEPT !["processing_status"] = "draft",
                                      !["processing_error"] = Falsy]
    /\ up_pc' = "reset"
    /\ UNCHANGED <<up_before, up_data, up_runs, updateFrame>>

InitUpdate ==
    /\ HostInit
    /\ MergeIdle
    /\ AdapterIdle
    /\ ExtractIdle
    /\ FallbackIdle
    /\ CliIdle
    /\ VcardIdle
    /\ BulkIdle
    /\ BatchIdle
    /\ PartnerIdle
    /\ CacheIdle
    /\ variant = "host"
    /\ up_record = NewRecord
    /\ up_before = NewRecord
    /\ up_data = <<>>
    /\ up_runs = 0
    /\ up_pc = "created"

NextUpdate ==
    \/ \E sd \in StructuredData : RunStarts(sd)
    \/ \E stored \in BOOLEAN : UpdateRecord(stored)
    \/ RunEnds
    \/ ReprocessReset

SpecUpdate == InitUpdate /\ [][NextUpdate]_vars

\* The i-th key of field_mapping comes with a non-empty value.
KeyHasValue(i) ==
    /\ field_mapping[i][1] \in DOMAIN up_data
    /\ up_data[field_mapping[i][1]] # <<>>

====
